---- MODULE Spec2Model ----
(***************************************************************************)
(* Model of model13p.py: a Streamlit front end that builds prompts, sends  *)
(* them to a Bedrock model and splits the answers on literal markers.      *)
(*                                                                         *)
(* Texts are sequences of one-character strings, so that str.find, slicing *)
(* and str.strip are computed character by character as Python does.       *)
(* Positions are 0-based, as in the source.                                *)
(***************************************************************************)
EXTENDS Integers, Sequences, FiniteSets, TLC

(***************************************************************************)
(* Bounds of the model                                                     *)
(***************************************************************************)
\* number of (marker, content) segments a generated response text is made of
MaxSegments == 3

\* cap on the invoke_model calls counted within one call_bedrock_model invocation
MaxInvokes == 3

\* number of requests a caller makes one after another
MaxRequests == 2

\* number of button presses in one session
MaxPresses == 2

\* number of different answers the model gives to one prompt
NumReplies == 2

(***************************************************************************)
(* Python string primitives                                                *)
(***************************************************************************)
\* A str is the sequence of the code points of its characters: "ok" is <<111, 107>>.
\* The text of a literal stands in the comment beside it. Code points above 126 are
\* written in hexadecimal: \h00E9, \h2003, \h10400.

\* the characters str.strip() removes: those for which str.isspace() holds
Whitespace ==
    {\h0009, \h000A, \h000B, \h000C, \h000D, \h001C, \h001D, \h001E, \h001F, \h0020,
     \h0085, \h00A0, \h1680, \h2000, \h2001, \h2002, \h2003, \h2004, \h2005, \h2006,
     \h2007, \h2008, \h2009, \h200A, \h2028, \h2029, \h202F, \h205F, \h3000}
MinOf(S) == CHOOSE x \in S : \A y \in S : x <= y

\* s.find(sub): lowest 0-based index where sub occurs in s, -1 when it does not
find(s, sub) ==
    LET n == Len(s)
        m == Len(sub)
        hits == {i \in 0..(n - m) : m = 0 \/ (s[i + 1] = sub[1] /\ SubSeq(s, i + 1, i + m) = sub)}
    IN  IF hits = {} THEN -1 ELSE MinOf(hits)

\* sub in s
Contains(s, sub) == find(s, sub) # -1

\* a slice bound as Python normalises it: negative counts from the end, then clamp
ClampIndex(i, n) ==
    LET j == IF i < 0 THEN i + n ELSE i
    IN  IF j < 0 THEN 0 ELSE IF j > n THEN n ELSE j

\* s[a:b]
Slice(s, a, b) ==
    LET lo == ClampIndex(a, Len(s))
        hi == ClampIndex(b, Len(s))
    IN  IF lo >= hi THEN <<>> ELSE SubSeq(s, lo + 1, hi)

\* s[a:]
SliceFrom(s, a) == Slice(s, a, Len(s))

RECURSIVE lstrip(_)
lstrip(s) ==
    IF s = <<>> \/ Head(s) \notin Whitespace THEN s ELSE lstrip(Tail(s))

RECURSIVE rstrip(_)
rstrip(s) ==
    IF s = <<>> \/ s[Len(s)] \notin Whitespace THEN s ELSE rstrip(SubSeq(s, 1, Len(s) - 1))

\* s.strip()
strip(s) == rstrip(lstrip(s))

(***************************************************************************)
(* Dictionaries: functions from keys to values                             *)
(***************************************************************************)
EmptyDict == [k \in {} |-> <<>>]

DictSet(d, key, value) ==
    [k \in (DOMAIN d) \cup {key} |-> IF k = key THEN value ELSE d[k]]

(***************************************************************************)
(* Markers and fallback strings of the two splitters                       *)
(***************************************************************************)
SPELLING_CORRECTIONS ==
    \* "SPELLING CORRECTIONS:"
    <<83, 80, 69, 76, 76, 73, 78, 71, 32, 67, 79, 82, 82, 69, 67, 84, 73, 79, 78, 83, 58>>

GRAMMAR_CORRECTIONS ==
    \* "GRAMMAR CORRECTIONS:"
    <<71, 82, 65, 77, 77, 65, 82, 32, 67, 79, 82, 82, 69, 67, 84, 73, 79, 78, 83, 58>>

COHERENCE_CORRECTIONS ==
    \* "COHERENCE CORRECTIONS:"
    <<67, 79, 72, 69, 82, 69, 78, 67, 69, 32, 67, 79, 82, 82, 69, 67, 84, 73, 79, 78, 83, 58>>

STYLE_CORRECTIONS ==
    \* "STYLE CORRECTIONS:"
    <<83, 84, 89, 76, 69, 32, 67, 79, 82, 82, 69, 67, 84, 73, 79, 78, 83, 58>>

ORDER_CORRECTIONS ==
    \* "ORDER CORRECTIONS:"
    <<79, 82, 68, 69, 82, 32, 67, 79, 82, 82, 69, 67, 84, 73, 79, 78, 83, 58>>

PROPOSED_CORRECTION ==
    \* "PROPOSED CORRECTION:"
    <<80, 82, 79, 80, 79, 83, 69, 68, 32, 67, 79, 82, 82, 69, 67, 84, 73, 79, 78, 58>>

NoCorrectionsNeeded ==
    \* "No corrections needed."
    <<78, 111, 32, 99, 111, 114, 114, 101, 99, 116, 105, 111, 110, 115, 32, 110, 101, 101,
            100, 101, 100, 46>>

SPELLING_EVALUATION ==
    \* "SPELLING EVALUATION:"
    <<83, 80, 69, 76, 76, 73, 78, 71, 32, 69, 86, 65, 76, 85, 65, 84, 73, 79, 78, 58>>

GRAMMAR_EVALUATION ==
    \* "GRAMMAR EVALUATION:"
    <<71, 82, 65, 77, 77, 65, 82, 32, 69, 86, 65, 76, 85, 65, 84, 73, 79, 78, 58>>

STYLE_EVALUATION ==
    \* "STYLE EVALUATION:"
    <<83, 84, 89, 76, 69, 32, 69, 86, 65, 76, 85, 65, 84, 73, 79, 78, 58>>

COHERENCE_EVALUATION ==
    \* "COHERENCE EVALUATION:"
    <<67, 79, 72, 69, 82, 69, 78, 67, 69, 32, 69, 86, 65, 76, 85, 65, 84, 73, 79, 78, 58>>

OVERALL_EVALUATION ==
    \* "OVERALL EVALUATION:"
    <<79, 86, 69, 82, 65, 76, 76, 32, 69, 86, 65, 76, 85, 65, 84, 73, 79, 78, 58>>

NoEvaluationAvailable ==
    \* "No evaluation available for this section."
    <<78, 111, 32, 101, 118, 97, 108, 117, 97, 116, 105, 111, 110, 32, 97, 118, 97, 105, 108,
            97, 98, 108, 101, 32, 102, 111, 114, 32, 116, 104, 105, 115, 32, 115, 101, 99,
            116, 105, 111, 110, 46>>

\* analyze_user_text_enhanced: the (marker, key) pairs, in declared order
sections_to_extract ==
    << <<SPELLING_CORRECTIONS, "spelling">>,
       <<GRAMMAR_CORRECTIONS, "grammar">>,
       <<COHERENCE_CORRECTIONS, "coherence">>,
       <<STYLE_CORRECTIONS, "style">>,
       <<ORDER_CORRECTIONS, "order">>,
       <<PROPOSED_CORRECTION, "proposed">> >>

\* parse_evaluation_results: the (marker, key) pairs, in declared order
section_markers ==
    << <<SPELLING_EVALUATION, "spelling">>,
       <<GRAMMAR_EVALUATION, "grammar">>,
       <<STYLE_EVALUATION, "style">>,
       <<COHERENCE_EVALUATION, "coherence">>,
       <<OVERALL_EVALUATION, "overall">> >>

KeysOf(pairs) == {pairs[i][2] : i \in 1..Len(pairs)}

(***************************************************************************)
(* The corrections splitter of analyze_user_text_enhanced                  *)
(***************************************************************************)
\* variant: a marker is located at its last occurrence
found_markers_last(corrections, pairs) ==
    LET last(sub) == LET hits == {p \in 0..(Len(corrections) - Len(sub)) :
                                     Slice(corrections, p, p + Len(sub)) = sub}
                     IN  IF hits = {} THEN -1 ELSE -MinOf({-p : p \in hits})
        all == [i \in 1..Len(pairs) |-> <<last(pairs[i][1]), pairs[i][1], pairs[i][2]>>]
    IN  SelectSeq(all, LAMBDA t : t[1] # -1)

\* variant: the markers that are not found are kept, at position -1
found_markers_unfiltered(corrections, pairs) ==
    [i \in 1..Len(pairs) |-> <<find(corrections, pairs[i][1]), pairs[i][1], pairs[i][2]>>]

\* first loop: (pos, marker, key) of every marker found, in declared order
found_markers(corrections, pairs) ==
    LET all == [i \in 1..Len(pairs) |->
                  <<find(corrections, pairs[i][1]), pairs[i][1], pairs[i][2]>>]
    IN  SelectSeq(all, LAMBDA t : t[1] # -1)

\* x placed behind every element of the sorted list s whose position is <= its own
InsertByPos(x, s) ==
    LET before == SelectSeq(s, LAMBDA t : t[1] <= x[1])
        after == SelectSeq(s, LAMBDA t : t[1] > x[1])
    IN  before \o <<x>> \o after

\* variant: the found markers stay in declared order
sort_by_pos_declared(s) == s

\* found_markers.sort(key=lambda x: x[0]): a stable sort by position
RECURSIVE sort_by_pos(_)
sort_by_pos(s) ==
    IF s = <<>> THEN <<>>
    ELSE InsertByPos(s[Len(s)], sort_by_pos(SubSeq(s, 1, Len(s) - 1)))

\* variant: every slice runs to the end of the text
RECURSIVE extract_loop_to_end(_, _, _, _)
extract_loop_to_end(corrections, fm, i, acc) ==
    IF i > Len(fm) THEN acc
    ELSE extract_loop_to_end(corrections, fm, i + 1,
             DictSet(acc, fm[i][3],
                     strip(SliceFrom(corrections, fm[i][1] + Len(fm[i][2])))))

\* second loop: the text between a marker's end and the next marker's start
RECURSIVE extract_loop(_, _, _, _)
extract_loop(corrections, fm, i, acc) ==
    IF i > Len(fm) THEN acc
    ELSE LET start_idx == fm[i][1] + Len(fm[i][2])
             value == IF i + 1 <= Len(fm)
                      THEN strip(Slice(corrections, start_idx, fm[i + 1][1]))
                      ELSE strip(SliceFrom(corrections, start_idx))
         IN  extract_loop(corrections, fm, i + 1, DictSet(acc, fm[i][3], value))

\* variant: the keys that were not extracted stay absent
fill_missing_skipped(pairs, i, acc, fallback) == acc

\* third loop: every key not extracted gets the fallback
RECURSIVE fill_missing(_, _, _, _)
fill_missing(pairs, i, acc, fallback) ==
    IF i > Len(pairs) THEN acc
    ELSE fill_missing(pairs, i + 1,
                      IF pairs[i][2] \in DOMAIN acc THEN acc
                      ELSE DictSet(acc, pairs[i][2], fallback),
                      fallback)

\* the splitter as a function of the response text and the declared pairs
split_sections(corrections, pairs, fallback) ==
    LET fm == sort_by_pos(found_markers(corrections, pairs))
    IN  fill_missing(pairs, 1, extract_loop(corrections, fm, 1, EmptyDict), fallback)

\* results["corrections"] of analyze_user_text_enhanced
correction_sections(corrections) ==
    split_sections(corrections, sections_to_extract, NoCorrectionsNeeded)

(***************************************************************************)
(* parse_evaluation_results: the two definitions of the file               *)
(***************************************************************************)
\* the value one present marker gets (the body of the "if marker in text" branch)
evaluation_slice(evaluation_text, marker) ==
    LET start_idx == find(evaluation_text, marker) + Len(marker)
        next_markers == SelectSeq([i \in 1..Len(section_markers) |-> section_markers[i][1]],
                                  LAMBDA m : m # marker /\ Contains(evaluation_text, m))
        next_indices == {find(evaluation_text, next_markers[j]) : j \in 1..Len(next_markers)}
                            \cap {p \in 0..Len(evaluation_text) : p > start_idx}
    IN  IF next_markers # <<>> /\ next_indices # {}
        THEN strip(Slice(evaluation_text, start_idx, MinOf(next_indices)))
        ELSE strip(SliceFrom(evaluation_text, start_idx))

\* first definition (Text Evaluation block at the top): absent markers get the fallback
RECURSIVE parse_loop_1(_, _, _)
parse_loop_1(evaluation_text, i, acc) ==
    IF i > Len(section_markers) THEN acc
    ELSE LET marker == section_markers[i][1]
             key == section_markers[i][2]
         IN  parse_loop_1(evaluation_text, i + 1,
                 IF Contains(evaluation_text, marker)
                 THEN DictSet(acc, key, evaluation_slice(evaluation_text, marker))
                 ELSE DictSet(acc, key, NoEvaluationAvailable))

parse_evaluation_results_1(evaluation_text) == parse_loop_1(evaluation_text, 1, EmptyDict)

\* second definition (the repeated Text Evaluation block): no else branch
RECURSIVE parse_loop_2(_, _, _)
parse_loop_2(evaluation_text, i, acc) ==
    IF i > Len(section_markers) THEN acc
    ELSE LET marker == section_markers[i][1]
             key == section_markers[i][2]
         IN  parse_loop_2(evaluation_text, i + 1,
                 IF Contains(evaluation_text, marker)
                 THEN DictSet(acc, key, evaluation_slice(evaluation_text, marker))
                 ELSE acc)

parse_evaluation_results_2(evaluation_text) == parse_loop_2(evaluation_text, 1, EmptyDict)

\* variant: a box without a stored value stays empty
evaluation_boxes_blank(evaluation_results) ==
    [k \in KeysOf(section_markers) |->
        IF k \in DOMAIN evaluation_results THEN evaluation_results[k] ELSE <<>>]

\* the display loop of the Text Evaluation blocks: the value of each of the five boxes
evaluation_boxes(evaluation_results) ==
    [k \in KeysOf(section_markers) |->
        IF k \in DOMAIN evaluation_results THEN evaluation_results[k]
        ELSE NoEvaluationAvailable]

(***************************************************************************)
(* Python values                                                           *)
(*                                                                         *)
(* A value carries its type; a str holds its characters, a list its items  *)
(* and a dict its (key, value) pairs in insertion order.  A character that *)
(* is not ASCII is written as one element named by its code point.         *)
(***************************************************************************)
PyStr(chars) == [type |-> "str", chars |-> chars]

PyNone == [type |-> "NoneType"]

PyInt(n) == [type |-> "int", n |-> n]

PyList(items) == [type |-> "list", items |-> items]

PyDict(pairs) == [type |-> "dict", pairs |-> pairs]

\* truth value of a str or None, as "not x" tests it
Truthy(v) == ~(v = PyNone \/ v = PyStr(<<>>))

\* "A" to "Z"
UPPERCASE == [i \in 1..26 |-> 64 + i]

\* "a" to "z"
LOWERCASE == [i \in 1..26 |-> 96 + i]

\* "0" to "9"
DIGITS == [i \in 1..10 |-> 47 + i]

\* str.lower() of every character it changes whatever its neighbours, A-Z aside
\* (Unicode 14.0): the character, then the characters it becomes
UNICODE_LOWER ==
    {<<\h00C0, \h00E0>>, <<\h00C1, \h00E1>>, <<\h00C2, \h00E2>>, <<\h00C3, \h00E3>>,
     <<\h00C4, \h00E4>>, <<\h00C5, \h00E5>>, <<\h00C6, \h00E6>>, <<\h00C7, \h00E7>>,
     <<\h00C8, \h00E8>>, <<\h00C9, \h00E9>>, <<\h00CA, \h00EA>>, <<\h00CB, \h00EB>>,
     <<\h00CC, \h00EC>>, <<\h00CD, \h00ED>>, <<\h00CE, \h00EE>>, <<\h00CF, \h00EF>>,
     <<\h00D0, \h00F0>>, <<\h00D1, \h00F1>>, <<\h00D2, \h00F2>>, <<\h00D3, \h00F3>>,
     <<\h00D4, \h00F4>>, <<\h00D5, \h00F5>>, <<\h00D6, \h00F6>>, <<\h00D8, \h00F8>>,
     <<\h00D9, \h00F9>>, <<\h00DA, \h00FA>>, <<\h00DB, \h00FB>>, <<\h00DC, \h00FC>>,
     <<\h00DD, \h00FD>>, <<\h00DE, \h00FE>>, <<\h0100, \h0101>>, <<\h0102, \h0103>>,
     <<\h0104, \h0105>>, <<\h0106, \h0107>>, <<\h0108, \h0109>>, <<\h010A, \h010B>>,
     <<\h010C, \h010D>>, <<\h010E, \h010F>>, <<\h0110, \h0111>>, <<\h0112, \h0113>>,
     <<\h0114, \h0115>>, <<\h0116, \h0117>>, <<\h0118, \h0119>>, <<\h011A, \h011B>>,
     <<\h011C, \h011D>>, <<\h011E, \h011F>>, <<\h0120, \h0121>>, <<\h0122, \h0123>>,
     <<\h0124, \h0125>>, <<\h0126, \h0127>>, <<\h0128, \h0129>>, <<\h012A, \h012B>>,
     <<\h012C, \h012D>>, <<\h012E, \h012F>>, <<\h0130, \h0069, \h0307>>,
     <<\h0132, \h0133>>, <<\h0134, \h0135>>, <<\h0136, \h0137>>, <<\h0139, \h013A>>,
     <<\h013B, \h013C>>, <<\h013D, \h013E>>, <<\h013F, \h0140>>, <<\h0141, \h0142>>,
     <<\h0143, \h0144>>, <<\h0145, \h0146>>, <<\h0147, \h0148>>, <<\h014A, \h014B>>,
     <<\h014C, \h014D>>, <<\h014E, \h014F>>, <<\h0150, \h0151>>, <<\h0152, \h0153>>,
     <<\h0154, \h0155>>, <<\h0156, \h0157>>, <<\h0158, \h0159>>, <<\h015A, \h015B>>,
     <<\h015C, \h015D>>, <<\h015E, \h015F>>, <<\h0160, \h0161>>, <<\h0162, \h0163>>,
     <<\h0164, \h0165>>, <<\h0166, \h0167>>, <<\h0168, \h0169>>, <<\h016A, \h016B>>,
     <<\h016C, \h016D>>, <<\h016E, \h016F>>, <<\h0170, \h0171>>, <<\h0172, \h0173>>,
     <<\h0174, \h0175>>, <<\h0176, \h0177>>, <<\h0178, \h00FF>>, <<\h0179, \h017A>>,
     <<\h017B, \h017C>>, <<\h017D, \h017E>>, <<\h0181, \h0253>>, <<\h0182, \h0183>>,
     <<\h0184, \h0185>>, <<\h0186, \h0254>>, <<\h0187, \h0188>>, <<\h0189, \h0256>>,
     <<\h018A, \h0257>>, <<\h018B, \h018C>>, <<\h018E, \h01DD>>, <<\h018F, \h0259>>,
     <<\h0190, \h025B>>, <<\h0191, \h0192>>, <<\h0193, \h0260>>, <<\h0194, \h0263>>,
     <<\h0196, \h0269>>, <<\h0197, \h0268>>, <<\h0198, \h0199>>, <<\h019C, \h026F>>,
     <<\h019D, \h0272>>, <<\h019F, \h0275>>, <<\h01A0, \h01A1>>, <<\h01A2, \h01A3>>,
     <<\h01A4, \h01A5>>, <<\h01A6, \h0280>>, <<\h01A7, \h01A8>>, <<\h01A9, \h0283>>,
     <<\h01AC, \h01AD>>, <<\h01AE, \h0288>>, <<\h01AF, \h01B0>>, <<\h01B1, \h028A>>,
     <<\h01B2, \h028B>>, <<\h01B3, \h01B4>>, <<\h01B5, \h01B6>>, <<\h01B7, \h0292>>,
     <<\h01B8, \h01B9>>, <<\h01BC, \h01BD>>, <<\h01C4, \h01C6>>, <<\h01C5, \h01C6>>,
     <<\h01C7, \h01C9>>, <<\h01C8, \h01C9>>, <<\h01CA, \h01CC>>, <<\h01CB, \h01CC>>,
     <<\h01CD, \h01CE>>, <<\h01CF, \h01D0>>, <<\h01D1, \h01D2>>, <<\h01D3, \h01D4>>,
     <<\h01D5, \h01D6>>, <<\h01D7, \h01D8>>, <<\h01D9, \h01DA>>, <<\h01DB, \h01DC>>,
     <<\h01DE, \h01DF>>, <<\h01E0, \h01E1>>, <<\h01E2, \h01E3>>, <<\h01E4, \h01E5>>,
     <<\h01E6, \h01E7>>, <<\h01E8, \h01E9>>, <<\h01EA, \h01EB>>, <<\h01EC, \h01ED>>,
     <<\h01EE, \h01EF>>, <<\h01F1, \h01F3>>, <<\h01F2, \h01F3>>, <<\h01F4, \h01F5>>,
     <<\h01F6, \h0195>>, <<\h01F7, \h01BF>>, <<\h01F8, \h01F9>>, <<\h01FA, \h01FB>>,
     <<\h01FC, \h01FD>>, <<\h01FE, \h01FF>>, <<\h0200, \h0201>>, <<\h0202, \h0203>>,
     <<\h0204, \h0205>>, <<\h0206, \h0207>>, <<\h0208, \h0209>>, <<\h020A, \h020B>>,
     <<\h020C, \h020D>>, <<\h020E, \h020F>>, <<\h0210, \h0211>>, <<\h0212, \h0213>>,
     <<\h0214, \h0215>>, <<\h0216, \h0217>>, <<\h0218, \h0219>>, <<\h021A, \h021B>>,
     <<\h021C, \h021D>>, <<\h021E, \h021F>>, <<\h0220, \h019E>>, <<\h0222, \h0223>>,
     <<\h0224, \h0225>>, <<\h0226, \h0227>>, <<\h0228, \h0229>>, <<\h022A, \h022B>>,
     <<\h022C, \h022D>>, <<\h022E, \h022F>>, <<\h0230, \h0231>>, <<\h0232, \h0233>>,
     <<\h023A, \h2C65>>, <<\h023B, \h023C>>, <<\h023D, \h019A>>, <<\h023E, \h2C66>>,
     <<\h0241, \h0242>>, <<\h0243, \h0180>>, <<\h0244, \h0289>>, <<\h0245, \h028C>>,
     <<\h0246, \h0247>>, <<\h0248, \h0249>>, <<\h024A, \h024B>>, <<\h024C, \h024D>>,
     <<\h024E, \h024F>>, <<\h0370, \h0371>>, <<\h0372, \h0373>>, <<\h0376, \h0377>>,
     <<\h037F, \h03F3>>, <<\h0386, \h03AC>>, <<\h0388, \h03AD>>, <<\h0389, \h03AE>>,
     <<\h038A, \h03AF>>, <<\h038C, \h03CC>>, <<\h038E, \h03CD>>, <<\h038F, \h03CE>>,
     <<\h0391, \h03B1>>, <<\h0392, \h03B2>>, <<\h0393, \h03B3>>, <<\h0394, \h03B4>>,
     <<\h0395, \h03B5>>, <<\h0396, \h03B6>>, <<\h0397, \h03B7>>, <<\h0398, \h03B8>>,
     <<\h0399, \h03B9>>, <<\h039A, \h03BA>>, <<\h039B, \h03BB>>, <<\h039C, \h03BC>>,
     <<\h039D, \h03BD>>, <<\h039E, \h03BE>>, <<\h039F, \h03BF>>, <<\h03A0, \h03C0>>,
     <<\h03A1, \h03C1>>, <<\h03A4, \h03C4>>, <<\h03A5, \h03C5>>, <<\h03A6, \h03C6>>,
     <<\h03A7, \h03C7>>, <<\h03A8, \h03C8>>, <<\h03A9, \h03C9>>, <<\h03AA, \h03CA>>,
     <<\h03AB, \h03CB>>, <<\h03CF, \h03D7>>, <<\h03D8, \h03D9>>, <<\h03DA, \h03DB>>,
     <<\h03DC, \h03DD>>, <<\h03DE, \h03DF>>, <<\h03E0, \h03E1>>, <<\h03E2, \h03E3>>,
     <<\h03E4, \h03E5>>, <<\h03E6, \h03E7>>, <<\h03E8, \h03E9>>, <<\h03EA, \h03EB>>,
     <<\h03EC, \h03ED>>, <<\h03EE, \h03EF>>, <<\h03F4, \h03B8>>, <<\h03F7, \h03F8>>,
     <<\h03F9, \h03F2>>, <<\h03FA, \h03FB>>, <<\h03FD, \h037B>>, <<\h03FE, \h037C>>,
     <<\h03FF, \h037D>>, <<\h0400, \h0450>>, <<\h0401, \h0451>>, <<\h0402, \h0452>>,
     <<\h0403, \h0453>>, <<\h0404, \h0454>>, <<\h0405, \h0455>>, <<\h0406, \h0456>>,
     <<\h0407, \h0457>>, <<\h0408, \h0458>>, <<\h0409, \h0459>>, <<\h040A, \h045A>>,
     <<\h040B, \h045B>>, <<\h040C, \h045C>>, <<\h040D, \h045D>>, <<\h040E, \h045E>>,
     <<\h040F, \h045F>>, <<\h0410, \h0430>>, <<\h0411, \h0431>>, <<\h0412, \h0432>>,
     <<\h0413, \h0433>>, <<\h0414, \h0434>>, <<\h0415, \h0435>>, <<\h0416, \h0436>>,
     <<\h0417, \h0437>>, <<\h0418, \h0438>>, <<\h0419, \h0439>>, <<\h041A, \h043A>>,
     <<\h041B, \h043B>>, <<\h041C, \h043C>>, <<\h041D, \h043D>>, <<\h041E, \h043E>>,
     <<\h041F, \h043F>>, <<\h0420, \h0440>>, <<\h0421, \h0441>>, <<\h0422, \h0442>>,
     <<\h0423, \h0443>>, <<\h0424, \h0444>>, <<\h0425, \h0445>>, <<\h0426, \h0446>>,
     <<\h0427, \h0447>>, <<\h0428, \h0448>>, <<\h0429, \h0449>>, <<\h042A, \h044A>>,
     <<\h042B, \h044B>>, <<\h042C, \h044C>>, <<\h042D, \h044D>>, <<\h042E, \h044E>>,
     <<\h042F, \h044F>>, <<\h0460, \h0461>>, <<\h0462, \h0463>>, <<\h0464, \h0465>>,
     <<\h0466, \h0467>>, <<\h0468, \h0469>>, <<\h046A, \h046B>>, <<\h046C, \h046D>>,
     <<\h046E, \h046F>>, <<\h0470, \h0471>>, <<\h0472, \h0473>>, <<\h0474, \h0475>>,
     <<\h0476, \h0477>>, <<\h0478, \h0479>>, <<\h047A, \h047B>>, <<\h047C, \h047D>>,
     <<\h047E, \h047F>>, <<\h0480, \h0481>>, <<\h048A, \h048B>>, <<\h048C, \h048D>>,
     <<\h048E, \h048F>>, <<\h0490, \h0491>>, <<\h0492, \h0493>>, <<\h0494, \h0495>>,
     <<\h0496, \h0497>>, <<\h0498, \h0499>>, <<\h049A, \h049B>>, <<\h049C, \h049D>>,
     <<\h049E, \h049F>>, <<\h04A0, \h04A1>>, <<\h04A2, \h04A3>>, <<\h04A4, \h04A5>>,
     <<\h04A6, \h04A7>>, <<\h04A8, \h04A9>>, <<\h04AA, \h04AB>>, <<\h04AC, \h04AD>>,
     <<\h04AE, \h04AF>>, <<\h04B0, \h04B1>>, <<\h04B2, \h04B3>>, <<\h04B4, \h04B5>>,
     <<\h04B6, \h04B7>>, <<\h04B8, \h04B9>>, <<\h04BA, \h04BB>>, <<\h04BC, \h04BD>>,
     <<\h04BE, \h04BF>>, <<\h04C0, \h04CF>>, <<\h04C1, \h04C2>>, <<\h04C3, \h04C4>>,
     <<\h04C5, \h04C6>>, <<\h04C7, \h04C8>>, <<\h04C9, \h04CA>>, <<\h04CB, \h04CC>>,
     <<\h04CD, \h04CE>>, <<\h04D0, \h04D1>>, <<\h04D2, \h04D3>>, <<\h04D4, \h04D5>>,
     <<\h04D6, \h04D7>>, <<\h04D8, \h04D9>>, <<\h04DA, \h04DB>>, <<\h04DC, \h04DD>>,
     <<\h04DE, \h04DF>>, <<\h04E0, \h04E1>>, <<\h04E2, \h04E3>>, <<\h04E4, \h04E5>>,
     <<\h04E6, \h04E7>>, <<\h04E8, \h04E9>>, <<\h04EA, \h04EB>>, <<\h04EC, \h04ED>>,
     <<\h04EE, \h04EF>>, <<\h04F0, \h04F1>>, <<\h04F2, \h04F3>>, <<\h04F4, \h04F5>>,
     <<\h04F6, \h04F7>>, <<\h04F8, \h04F9>>, <<\h04FA, \h04FB>>, <<\h04FC, \h04FD>>,
     <<\h04FE, \h04FF>>, <<\h0500, \h0501>>, <<\h0502, \h0503>>, <<\h0504, \h0505>>,
     <<\h0506, \h0507>>, <<\h0508, \h0509>>, <<\h050A, \h050B>>, <<\h050C, \h050D>>,
     <<\h050E, \h050F>>, <<\h0510, \h0511>>, <<\h0512, \h0513>>, <<\h0514, \h0515>>,
     <<\h0516, \h0517>>, <<\h0518, \h0519>>, <<\h051A, \h051B>>, <<\h051C, \h051D>>,
     <<\h051E, \h051F>>, <<\h0520, \h0521>>, <<\h0522, \h0523>>, <<\h0524, \h0525>>,
     <<\h0526, \h0527>>, <<\h0528, \h0529>>, <<\h052A, \h052B>>, <<\h052C, \h052D>>,
     <<\h052E, \h052F>>, <<\h0531, \h0561>>, <<\h0532, \h0562>>, <<\h0533, \h0563>>,
     <<\h0534, \h0564>>, <<\h0535, \h0565>>, <<\h0536, \h0566>>, <<\h0537, \h0567>>,
     <<\h0538, \h0568>>, <<\h0539, \h0569>>, <<\h053A, \h056A>>, <<\h053B, \h056B>>,
     <<\h053C, \h056C>>, <<\h053D, \h056D>>, <<\h053E, \h056E>>, <<\h053F, \h056F>>,
     <<\h0540, \h0570>>, <<\h0541, \h0571>>, <<\h0542, \h0572>>, <<\h0543, \h0573>>,
     <<\h0544, \h0574>>, <<\h0545, \h0575>>, <<\h0546, \h0576>>, <<\h0547, \h0577>>,
     <<\h0548, \h0578>>, <<\h0549, \h0579>>, <<\h054A, \h057A>>, <<\h054B, \h057B>>,
     <<\h054C, \h057C>>, <<\h054D, \h057D>>, <<\h054E, \h057E>>, <<\h054F, \h057F>>,
     <<\h0550, \h0580>>, <<\h0551, \h0581>>, <<\h0552, \h0582>>, <<\h0553, \h0583>>,
     <<\h0554, \h0584>>, <<\h0555, \h0585>>, <<\h0556, \h0586>>, <<\h10A0, \h2D00>>,
     <<\h10A1, \h2D01>>, <<\h10A2, \h2D02>>, <<\h10A3, \h2D03>>, <<\h10A4, \h2D04>>,
     <<\h10A5, \h2D05>>, <<\h10A6, \h2D06>>, <<\h10A7, \h2D07>>, <<\h10A8, \h2D08>>,
     <<\h10A9, \h2D09>>, <<\h10AA, \h2D0A>>, <<\h10AB, \h2D0B>>, <<\h10AC, \h2D0C>>,
     <<\h10AD, \h2D0D>>, <<\h10AE, \h2D0E>>, <<\h10AF, \h2D0F>>, <<\h10B0, \h2D10>>,
     <<\h10B1, \h2D11>>, <<\h10B2, \h2D12>>, <<\h10B3, \h2D13>>, <<\h10B4, \h2D14>>,
     <<\h10B5, \h2D15>>, <<\h10B6, \h2D16>>, <<\h10B7, \h2D17>>, <<\h10B8, \h2D18>>,
     <<\h10B9, \h2D19>>, <<\h10BA, \h2D1A>>, <<\h10BB, \h2D1B>>, <<\h10BC, \h2D1C>>,
     <<\h10BD, \h2D1D>>, <<\h10BE, \h2D1E>>, <<\h10BF, \h2D1F>>, <<\h10C0, \h2D20>>,
     <<\h10C1, \h2D21>>, <<\h10C2, \h2D22>>, <<\h10C3, \h2D23>>, <<\h10C4, \h2D24>>,
     <<\h10C5, \h2D25>>, <<\h10C7, \h2D27>>, <<\h10CD, \h2D2D>>, <<\h13A0, \hAB70>>,
     <<\h13A1, \hAB71>>, <<\h13A2, \hAB72>>, <<\h13A3, \hAB73>>, <<\h13A4, \hAB74>>,
     <<\h13A5, \hAB75>>, <<\h13A6, \hAB76>>, <<\h13A7, \hAB77>>, <<\h13A8, \hAB78>>,
     <<\h13A9, \hAB79>>, <<\h13AA, \hAB7A>>, <<\h13AB, \hAB7B>>, <<\h13AC, \hAB7C>>,
     <<\h13AD, \hAB7D>>, <<\h13AE, \hAB7E>>, <<\h13AF, \hAB7F>>, <<\h13B0, \hAB80>>,
     <<\h13B1, \hAB81>>, <<\h13B2, \hAB82>>, <<\h13B3, \hAB83>>, <<\h13B4, \hAB84>>,
     <<\h13B5, \hAB85>>, <<\h13B6, \hAB86>>, <<\h13B7, \hAB87>>, <<\h13B8, \hAB88>>,
     <<\h13B9, \hAB89>>, <<\h13BA, \hAB8A>>, <<\h13BB, \hAB8B>>, <<\h13BC, \hAB8C>>,
     <<\h13BD, \hAB8D>>, <<\h13BE, \hAB8E>>, <<\h13BF, \hAB8F>>, <<\h13C0, \hAB90>>,
     <<\h13C1, \hAB91>>, <<\h13C2, \hAB92>>, <<\h13C3, \hAB93>>, <<\h13C4, \hAB94>>,
     <<\h13C5, \hAB95>>, <<\h13C6, \hAB96>>, <<\h13C7, \hAB97>>, <<\h13C8, \hAB98>>,
     <<\h13C9, \hAB99>>, <<\h13CA, \hAB9A>>, <<\h13CB, \hAB9B>>, <<\h13CC, \hAB9C>>,
     <<\h13CD, \hAB9D>>, <<\h13CE, \hAB9E>>, <<\h13CF, \hAB9F>>, <<\h13D0, \hABA0>>,
     <<\h13D1, \hABA1>>, <<\h13D2, \hABA2>>, <<\h13D3, \hABA3>>, <<\h13D4, \hABA4>>,
     <<\h13D5, \hABA5>>, <<\h13D6, \hABA6>>, <<\h13D7, \hABA7>>, <<\h13D8, \hABA8>>,
     <<\h13D9, \hABA9>>, <<\h13DA, \hABAA>>, <<\h13DB, \hABAB>>, <<\h13DC, \hABAC>>,
     <<\h13DD, \hABAD>>, <<\h13DE, \hABAE>>, <<\h13DF, \hABAF>>, <<\h13E0, \hABB0>>,
     <<\h13E1, \hABB1>>, <<\h13E2, \hABB2>>, <<\h13E3, \hABB3>>, <<\h13E4, \hABB4>>,
     <<\h13E5, \hABB5>>, <<\h13E6, \hABB6>>, <<\h13E7, \hABB7>>, <<\h13E8, \hABB8>>,
     <<\h13E9, \hABB9>>, <<\h13EA, \hABBA>>, <<\h13EB, \hABBB>>, <<\h13EC, \hABBC>>,
     <<\h13ED, \hABBD>>, <<\h13EE, \hABBE>>, <<\h13EF, \hABBF>>, <<\h13F0, \h13F8>>,
     <<\h13F1, \h13F9>>, <<\h13F2, \h13FA>>, <<\h13F3, \h13FB>>, <<\h13F4, \h13FC>>,
     <<\h13F5, \h13FD>>, <<\h1C90, \h10D0>>, <<\h1C91, \h10D1>>, <<\h1C92, \h10D2>>,
     <<\h1C93, \h10D3>>, <<\h1C94, \h10D4>>, <<\h1C95, \h10D5>>, <<\h1C96, \h10D6>>,
     <<\h1C97, \h10D7>>, <<\h1C98, \h10D8>>, <<\h1C99, \h10D9>>, <<\h1C9A, \h10DA>>,
     <<\h1C9B, \h10DB>>, <<\h1C9C, \h10DC>>, <<\h1C9D, \h10DD>>, <<\h1C9E, \h10DE>>,
     <<\h1C9F, \h10DF>>, <<\h1CA0, \h10E0>>, <<\h1CA1, \h10E1>>, <<\h1CA2, \h10E2>>,
     <<\h1CA3, \h10E3>>, <<\h1CA4, \h10E4>>, <<\h1CA5, \h10E5>>, <<\h1CA6, \h10E6>>,
     <<\h1CA7, \h10E7>>, <<\h1CA8, \h10E8>>, <<\h1CA9, \h10E9>>, <<\h1CAA, \h10EA>>,
     <<\h1CAB, \h10EB>>, <<\h1CAC, \h10EC>>, <<\h1CAD, \h10ED>>, <<\h1CAE, \h10EE>>,
     <<\h1CAF, \h10EF>>, <<\h1CB0, \h10F0>>, <<\h1CB1, \h10F1>>, <<\h1CB2, \h10F2>>,
     <<\h1CB3, \h10F3>>, <<\h1CB4, \h10F4>>, <<\h1CB5, \h10F5>>, <<\h1CB6, \h10F6>>,
     <<\h1CB7, \h10F7>>, <<\h1CB8, \h10F8>>, <<\h1CB9, \h10F9>>, <<\h1CBA, \h10FA>>,
     <<\h1CBD, \h10FD>>, <<\h1CBE, \h10FE>>, <<\h1CBF, \h10FF>>, <<\h1E00, \h1E01>>,
     <<\h1E02, \h1E03>>, <<\h1E04, \h1E05>>, <<\h1E06, \h1E07>>, <<\h1E08, \h1E09>>,
     <<\h1E0A, \h1E0B>>, <<\h1E0C, \h1E0D>>, <<\h1E0E, \h1E0F>>, <<\h1E10, \h1E11>>,
     <<\h1E12, \h1E13>>, <<\h1E14, \h1E15>>, <<\h1E16, \h1E17>>, <<\h1E18, \h1E19>>,
     <<\h1E1A, \h1E1B>>, <<\h1E1C, \h1E1D>>, <<\h1E1E, \h1E1F>>, <<\h1E20, \h1E21>>,
     <<\h1E22, \h1E23>>, <<\h1E24, \h1E25>>, <<\h1E26, \h1E27>>, <<\h1E28, \h1E29>>,
     <<\h1E2A, \h1E2B>>, <<\h1E2C, \h1E2D>>, <<\h1E2E, \h1E2F>>, <<\h1E30, \h1E31>>,
     <<\h1E32, \h1E33>>, <<\h1E34, \h1E35>>, <<\h1E36, \h1E37>>, <<\h1E38, \h1E39>>,
     <<\h1E3A, \h1E3B>>, <<\h1E3C, \h1E3D>>, <<\h1E3E, \h1E3F>>, <<\h1E40, \h1E41>>,
     <<\h1E42, \h1E43>>, <<\h1E44, \h1E45>>, <<\h1E46, \h1E47>>, <<\h1E48, \h1E49>>,
     <<\h1E4A, \h1E4B>>, <<\h1E4C, \h1E4D>>, <<\h1E4E, \h1E4F>>, <<\h1E50, \h1E51>>,
     <<\h1E52, \h1E53>>, <<\h1E54, \h1E55>>, <<\h1E56, \h1E57>>, <<\h1E58, \h1E59>>,
     <<\h1E5A, \h1E5B>>, <<\h1E5C, \h1E5D>>, <<\h1E5E, \h1E5F>>, <<\h1E60, \h1E61>>,
     <<\h1E62, \h1E63>>, <<\h1E64, \h1E65>>, <<\h1E66, \h1E67>>, <<\h1E68, \h1E69>>,
     <<\h1E6A, \h1E6B>>, <<\h1E6C, \h1E6D>>, <<\h1E6E, \h1E6F>>, <<\h1E70, \h1E71>>,
     <<\h1E72, \h1E73>>, <<\h1E74, \h1E75>>, <<\h1E76, \h1E77>>, <<\h1E78, \h1E79>>,
     <<\h1E7A, \h1E7B>>, <<\h1E7C, \h1E7D>>, <<\h1E7E, \h1E7F>>, <<\h1E80, \h1E81>>,
     <<\h1E82, \h1E83>>, <<\h1E84, \h1E85>>, <<\h1E86, \h1E87>>, <<\h1E88, \h1E89>>,
     <<\h1E8A, \h1E8B>>, <<\h1E8C, \h1E8D>>, <<\h1E8E, \h1E8F>>, <<\h1E90, \h1E91>>,
     <<\h1E92, \h1E93>>, <<\h1E94, \h1E95>>, <<\h1E9E, \h00DF>>, <<\h1EA0, \h1EA1>>,
     <<\h1EA2, \h1EA3>>, <<\h1EA4, \h1EA5>>, <<\h1EA6, \h1EA7>>, <<\h1EA8, \h1EA9>>,
     <<\h1EAA, \h1EAB>>, <<\h1EAC, \h1EAD>>, <<\h1EAE, \h1EAF>>, <<\h1EB0, \h1EB1>>,
     <<\h1EB2, \h1EB3>>, <<\h1EB4, \h1EB5>>, <<\h1EB6, \h1EB7>>, <<\h1EB8, \h1EB9>>,
     <<\h1EBA, \h1EBB>>, <<\h1EBC, \h1EBD>>, <<\h1EBE, \h1EBF>>, <<\h1EC0, \h1EC1>>,
     <<\h1EC2, \h1EC3>>, <<\h1EC4, \h1EC5>>, <<\h1EC6, \h1EC7>>, <<\h1EC8, \h1EC9>>,
     <<\h1ECA, \h1ECB>>, <<\h1ECC, \h1ECD>>, <<\h1ECE, \h1ECF>>, <<\h1ED0, \h1ED1>>,
     <<\h1ED2, \h1ED3>>, <<\h1ED4, \h1ED5>>, <<\h1ED6, \h1ED7>>, <<\h1ED8, \h1ED9>>,
     <<\h1EDA, \h1EDB>>, <<\h1EDC, \h1EDD>>, <<\h1EDE, \h1EDF>>, <<\h1EE0, \h1EE1>>,
     <<\h1EE2, \h1EE3>>, <<\h1EE4, \h1EE5>>, <<\h1EE6, \h1EE7>>, <<\h1EE8, \h1EE9>>,
     <<\h1EEA, \h1EEB>>, <<\h1EEC, \h1EED>>, <<\h1EEE, \h1EEF>>, <<\h1EF0, \h1EF1>>,
     <<\h1EF2, \h1EF3>>, <<\h1EF4, \h1EF5>>, <<\h1EF6, \h1EF7>>, <<\h1EF8, \h1EF9>>,
     <<\h1EFA, \h1EFB>>, <<\h1EFC, \h1EFD>>, <<\h1EFE, \h1EFF>>, <<\h1F08, \h1F00>>,
     <<\h1F09, \h1F01>>, <<\h1F0A, \h1F02>>, <<\h1F0B, \h1F03>>, <<\h1F0C, \h1F04>>,
     <<\h1F0D, \h1F05>>, <<\h1F0E, \h1F06>>, <<\h1F0F, \h1F07>>, <<\h1F18, \h1F10>>,
     <<\h1F19, \h1F11>>, <<\h1F1A, \h1F12>>, <<\h1F1B, \h1F13>>, <<\h1F1C, \h1F14>>,
     <<\h1F1D, \h1F15>>, <<\h1F28, \h1F20>>, <<\h1F29, \h1F21>>, <<\h1F2A, \h1F22>>,
     <<\h1F2B, \h1F23>>, <<\h1F2C, \h1F24>>, <<\h1F2D, \h1F25>>, <<\h1F2E, \h1F26>>,
     <<\h1F2F, \h1F27>>, <<\h1F38, \h1F30>>, <<\h1F39, \h1F31>>, <<\h1F3A, \h1F32>>,
     <<\h1F3B, \h1F33>>, <<\h1F3C, \h1F34>>, <<\h1F3D, \h1F35>>, <<\h1F3E, \h1F36>>,
     <<\h1F3F, \h1F37>>, <<\h1F48, \h1F40>>, <<\h1F49, \h1F41>>, <<\h1F4A, \h1F42>>,
     <<\h1F4B, \h1F43>>, <<\h1F4C, \h1F44>>, <<\h1F4D, \h1F45>>, <<\h1F59, \h1F51>>,
     <<\h1F5B, \h1F53>>, <<\h1F5D, \h1F55>>, <<\h1F5F, \h1F57>>, <<\h1F68, \h1F60>>,
     <<\h1F69, \h1F61>>, <<\h1F6A, \h1F62>>, <<\h1F6B, \h1F63>>, <<\h1F6C, \h1F64>>,
     <<\h1F6D, \h1F65>>, <<\h1F6E, \h1F66>>, <<\h1F6F, \h1F67>>, <<\h1F88, \h1F80>>,
     <<\h1F89, \h1F81>>, <<\h1F8A, \h1F82>>, <<\h1F8B, \h1F83>>, <<\h1F8C, \h1F84>>,
     <<\h1F8D, \h1F85>>, <<\h1F8E, \h1F86>>, <<\h1F8F, \h1F87>>, <<\h1F98, \h1F90>>,
     <<\h1F99, \h1F91>>, <<\h1F9A, \h1F92>>, <<\h1F9B, \h1F93>>, <<\h1F9C, \h1F94>>,
     <<\h1F9D, \h1F95>>, <<\h1F9E, \h1F96>>, <<\h1F9F, \h1F97>>, <<\h1FA8, \h1FA0>>,
     <<\h1FA9, \h1FA1>>, <<\h1FAA, \h1FA2>>, <<\h1FAB, \h1FA3>>, <<\h1FAC, \h1FA4>>,
     <<\h1FAD, \h1FA5>>, <<\h1FAE, \h1FA6>>, <<\h1FAF, \h1FA7>>, <<\h1FB8, \h1FB0>>,
     <<\h1FB9, \h1FB1>>, <<\h1FBA, \h1F70>>, <<\h1FBB, \h1F71>>, <<\h1FBC, \h1FB3>>,
     <<\h1FC8, \h1F72>>, <<\h1FC9, \h1F73>>, <<\h1FCA, \h1F74>>, <<\h1FCB, \h1F75>>,
     <<\h1FCC, \h1FC3>>, <<\h1FD8, \h1FD0>>, <<\h1FD9, \h1FD1>>, <<\h1FDA, \h1F76>>,
     <<\h1FDB, \h1F77>>, <<\h1FE8, \h1FE0>>, <<\h1FE9, \h1FE1>>, <<\h1FEA, \h1F7A>>,
     <<\h1FEB, \h1F7B>>, <<\h1FEC, \h1FE5>>, <<\h1FF8, \h1F78>>, <<\h1FF9, \h1F79>>,
     <<\h1FFA, \h1F7C>>, <<\h1FFB, \h1F7D>>, <<\h1FFC, \h1FF3>>, <<\h2126, \h03C9>>,
     <<\h212A, \h006B>>, <<\h212B, \h00E5>>, <<\h2132, \h214E>>, <<\h2160, \h2170>>,
     <<\h2161, \h2171>>, <<\h2162, \h2172>>, <<\h2163, \h2173>>, <<\h2164, \h2174>>,
     <<\h2165, \h2175>>, <<\h2166, \h2176>>, <<\h2167, \h2177>>, <<\h2168, \h2178>>,
     <<\h2169, \h2179>>, <<\h216A, \h217A>>, <<\h216B, \h217B>>, <<\h216C, \h217C>>,
     <<\h216D, \h217D>>, <<\h216E, \h217E>>, <<\h216F, \h217F>>, <<\h2183, \h2184>>,
     <<\h24B6, \h24D0>>, <<\h24B7, \h24D1>>, <<\h24B8, \h24D2>>, <<\h24B9, \h24D3>>,
     <<\h24BA, \h24D4>>, <<\h24BB, \h24D5>>, <<\h24BC, \h24D6>>, <<\h24BD, \h24D7>>,
     <<\h24BE, \h24D8>>, <<\h24BF, \h24D9>>, <<\h24C0, \h24DA>>, <<\h24C1, \h24DB>>,
     <<\h24C2, \h24DC>>, <<\h24C3, \h24DD>>, <<\h24C4, \h24DE>>, <<\h24C5, \h24DF>>,
     <<\h24C6, \h24E0>>, <<\h24C7, \h24E1>>, <<\h24C8, \h24E2>>, <<\h24C9, \h24E3>>,
     <<\h24CA, \h24E4>>, <<\h24CB, \h24E5>>, <<\h24CC, \h24E6>>, <<\h24CD, \h24E7>>,
     <<\h24CE, \h24E8>>, <<\h24CF, \h24E9>>, <<\h2C00, \h2C30>>, <<\h2C01, \h2C31>>,
     <<\h2C02, \h2C32>>, <<\h2C03, \h2C33>>, <<\h2C04, \h2C34>>, <<\h2C05, \h2C35>>,
     <<\h2C06, \h2C36>>, <<\h2C07, \h2C37>>, <<\h2C08, \h2C38>>, <<\h2C09, \h2C39>>,
     <<\h2C0A, \h2C3A>>, <<\h2C0B, \h2C3B>>, <<\h2C0C, \h2C3C>>, <<\h2C0D, \h2C3D>>,
     <<\h2C0E, \h2C3E>>, <<\h2C0F, \h2C3F>>, <<\h2C10, \h2C40>>, <<\h2C11, \h2C41>>,
     <<\h2C12, \h2C42>>, <<\h2C13, \h2C43>>, <<\h2C14, \h2C44>>, <<\h2C15, \h2C45>>,
     <<\h2C16, \h2C46>>, <<\h2C17, \h2C47>>, <<\h2C18, \h2C48>>, <<\h2C19, \h2C49>>,
     <<\h2C1A, \h2C4A>>, <<\h2C1B, \h2C4B>>, <<\h2C1C, \h2C4C>>, <<\h2C1D, \h2C4D>>,
     <<\h2C1E, \h2C4E>>, <<\h2C1F, \h2C4F>>, <<\h2C20, \h2C50>>, <<\h2C21, \h2C51>>,
     <<\h2C22, \h2C52>>, <<\h2C23, \h2C53>>, <<\h2C24, \h2C54>>, <<\h2C25, \h2C55>>,
     <<\h2C26, \h2C56>>, <<\h2C27, \h2C57>>, <<\h2C28, \h2C58>>, <<\h2C29, \h2C59>>,
     <<\h2C2A, \h2C5A>>, <<\h2C2B, \h2C5B>>, <<\h2C2C, \h2C5C>>, <<\h2C2D, \h2C5D>>,
     <<\h2C2E, \h2C5E>>, <<\h2C2F, \h2C5F>>, <<\h2C60, \h2C61>>, <<\h2C62, \h026B>>,
     <<\h2C63, \h1D7D>>, <<\h2C64, \h027D>>, <<\h2C67, \h2C68>>, <<\h2C69, \h2C6A>>,
     <<\h2C6B, \h2C6C>>, <<\h2C6D, \h0251>>, <<\h2C6E, \h0271>>, <<\h2C6F, \h0250>>,
     <<\h2C70, \h0252>>, <<\h2C72, \h2C73>>, <<\h2C75, \h2C76>>, <<\h2C7E, \h023F>>,
     <<\h2C7F, \h0240>>, <<\h2C80, \h2C81>>, <<\h2C82, \h2C83>>, <<\h2C84, \h2C85>>,
     <<\h2C86, \h2C87>>, <<\h2C88, \h2C89>>, <<\h2C8A, \h2C8B>>, <<\h2C8C, \h2C8D>>,
     <<\h2C8E, \h2C8F>>, <<\h2C90, \h2C91>>, <<\h2C92, \h2C93>>, <<\h2C94, \h2C95>>,
     <<\h2C96, \h2C97>>, <<\h2C98, \h2C99>>, <<\h2C9A, \h2C9B>>, <<\h2C9C, \h2C9D>>,
     <<\h2C9E, \h2C9F>>, <<\h2CA0, \h2CA1>>, <<\h2CA2, \h2CA3>>, <<\h2CA4, \h2CA5>>,
     <<\h2CA6, \h2CA7>>, <<\h2CA8, \h2CA9>>, <<\h2CAA, \h2CAB>>, <<\h2CAC, \h2CAD>>,
     <<\h2CAE, \h2CAF>>, <<\h2CB0, \h2CB1>>, <<\h2CB2, \h2CB3>>, <<\h2CB4, \h2CB5>>,
     <<\h2CB6, \h2CB7>>, <<\h2CB8, \h2CB9>>, <<\h2CBA, \h2CBB>>, <<\h2CBC, \h2CBD>>,
     <<\h2CBE, \h2CBF>>, <<\h2CC0, \h2CC1>>, <<\h2CC2, \h2CC3>>, <<\h2CC4, \h2CC5>>,
     <<\h2CC6, \h2CC7>>, <<\h2CC8, \h2CC9>>, <<\h2CCA, \h2CCB>>, <<\h2CCC, \h2CCD>>,
     <<\h2CCE, \h2CCF>>, <<\h2CD0, \h2CD1>>, <<\h2CD2, \h2CD3>>, <<\h2CD4, \h2CD5>>,
     <<\h2CD6, \h2CD7>>, <<\h2CD8, \h2CD9>>, <<\h2CDA, \h2CDB>>, <<\h2CDC, \h2CDD>>,
     <<\h2CDE, \h2CDF>>, <<\h2CE0, \h2CE1>>, <<\h2CE2, \h2CE3>>, <<\h2CEB, \h2CEC>>,
     <<\h2CED, \h2CEE>>, <<\h2CF2, \h2CF3>>, <<\hA640, \hA641>>, <<\hA642, \hA643>>,
     <<\hA644, \hA645>>, <<\hA646, \hA647>>, <<\hA648, \hA649>>, <<\hA64A, \hA64B>>,
     <<\hA64C, \hA64D>>, <<\hA64E, \hA64F>>, <<\hA650, \hA651>>, <<\hA652, \hA653>>,
     <<\hA654, \hA655>>, <<\hA656, \hA657>>, <<\hA658, \hA659>>, <<\hA65A, \hA65B>>,
     <<\hA65C, \hA65D>>, <<\hA65E, \hA65F>>, <<\hA660, \hA661>>, <<\hA662, \hA663>>,
     <<\hA664, \hA665>>, <<\hA666, \hA667>>, <<\hA668, \hA669>>, <<\hA66A, \hA66B>>,
     <<\hA66C, \hA66D>>, <<\hA680, \hA681>>, <<\hA682, \hA683>>, <<\hA684, \hA685>>,
     <<\hA686, \hA687>>, <<\hA688, \hA689>>, <<\hA68A, \hA68B>>, <<\hA68C, \hA68D>>,
     <<\hA68E, \hA68F>>, <<\hA690, \hA691>>, <<\hA692, \hA693>>, <<\hA694, \hA695>>,
     <<\hA696, \hA697>>, <<\hA698, \hA699>>, <<\hA69A, \hA69B>>, <<\hA722, \hA723>>,
     <<\hA724, \hA725>>, <<\hA726, \hA727>>, <<\hA728, \hA729>>, <<\hA72A, \hA72B>>,
     <<\hA72C, \hA72D>>, <<\hA72E, \hA72F>>, <<\hA732, \hA733>>, <<\hA734, \hA735>>,
     <<\hA736, \hA737>>, <<\hA738, \hA739>>, <<\hA73A, \hA73B>>, <<\hA73C, \hA73D>>,
     <<\hA73E, \hA73F>>, <<\hA740, \hA741>>, <<\hA742, \hA743>>, <<\hA744, \hA745>>,
     <<\hA746, \hA747>>, <<\hA748, \hA749>>, <<\hA74A, \hA74B>>, <<\hA74C, \hA74D>>,
     <<\hA74E, \hA74F>>, <<\hA750, \hA751>>, <<\hA752, \hA753>>, <<\hA754, \hA755>>,
     <<\hA756, \hA757>>, <<\hA758, \hA759>>, <<\hA75A, \hA75B>>, <<\hA75C, \hA75D>>,
     <<\hA75E, \hA75F>>, <<\hA760, \hA761>>, <<\hA762, \hA763>>, <<\hA764, \hA765>>,
     <<\hA766, \hA767>>, <<\hA768, \hA769>>, <<\hA76A, \hA76B>>, <<\hA76C, \hA76D>>,
     <<\hA76E, \hA76F>>, <<\hA779, \hA77A>>, <<\hA77B, \hA77C>>, <<\hA77D, \h1D79>>,
     <<\hA77E, \hA77F>>, <<\hA780, \hA781>>, <<\hA782, \hA783>>, <<\hA784, \hA785>>,
     <<\hA786, \hA787>>, <<\hA78B, \hA78C>>, <<\hA78D, \h0265>>, <<\hA790, \hA791>>,
     <<\hA792, \hA793>>, <<\hA796, \hA797>>, <<\hA798, \hA799>>, <<\hA79A, \hA79B>>,
     <<\hA79C, \hA79D>>, <<\hA79E, \hA79F>>, <<\hA7A0, \hA7A1>>, <<\hA7A2, \hA7A3>>,
     <<\hA7A4, \hA7A5>>, <<\hA7A6, \hA7A7>>, <<\hA7A8, \hA7A9>>, <<\hA7AA, \h0266>>,
     <<\hA7AB, \h025C>>, <<\hA7AC, \h0261>>, <<\hA7AD, \h026C>>, <<\hA7AE, \h026A>>,
     <<\hA7B0, \h029E>>, <<\hA7B1, \h0287>>, <<\hA7B2, \h029D>>, <<\hA7B3, \hAB53>>,
     <<\hA7B4, \hA7B5>>, <<\hA7B6, \hA7B7>>, <<\hA7B8, \hA7B9>>, <<\hA7BA, \hA7BB>>,
     <<\hA7BC, \hA7BD>>, <<\hA7BE, \hA7BF>>, <<\hA7C0, \hA7C1>>, <<\hA7C2, \hA7C3>>,
     <<\hA7C4, \hA794>>, <<\hA7C5, \h0282>>, <<\hA7C6, \h1D8E>>, <<\hA7C7, \hA7C8>>,
     <<\hA7C9, \hA7CA>>, <<\hA7D0, \hA7D1>>, <<\hA7D6, \hA7D7>>, <<\hA7D8, \hA7D9>>,
     <<\hA7F5, \hA7F6>>, <<\hFF21, \hFF41>>, <<\hFF22, \hFF42>>, <<\hFF23, \hFF43>>,
     <<\hFF24, \hFF44>>, <<\hFF25, \hFF45>>, <<\hFF26, \hFF46>>, <<\hFF27, \hFF47>>,
     <<\hFF28, \hFF48>>, <<\hFF29, \hFF49>>, <<\hFF2A, \hFF4A>>, <<\hFF2B, \hFF4B>>,
     <<\hFF2C, \hFF4C>>, <<\hFF2D, \hFF4D>>, <<\hFF2E, \hFF4E>>, <<\hFF2F, \hFF4F>>,
     <<\hFF30, \hFF50>>, <<\hFF31, \hFF51>>, <<\hFF32, \hFF52>>, <<\hFF33, \hFF53>>,
     <<\hFF34, \hFF54>>, <<\hFF35, \hFF55>>, <<\hFF36, \hFF56>>, <<\hFF37, \hFF57>>,
     <<\hFF38, \hFF58>>, <<\hFF39, \hFF59>>, <<\hFF3A, \hFF5A>>, <<\h10400, \h10428>>,
     <<\h10401, \h10429>>, <<\h10402, \h1042A>>, <<\h10403, \h1042B>>,
     <<\h10404, \h1042C>>, <<\h10405, \h1042D>>, <<\h10406, \h1042E>>,
     <<\h10407, \h1042F>>, <<\h10408, \h10430>>, <<\h10409, \h10431>>,
     <<\h1040A, \h10432>>, <<\h1040B, \h10433>>, <<\h1040C, \h10434>>,
     <<\h1040D, \h10435>>, <<\h1040E, \h10436>>, <<\h1040F, \h10437>>,
     <<\h10410, \h10438>>, <<\h10411, \h10439>>, <<\h10412, \h1043A>>,
     <<\h10413, \h1043B>>, <<\h10414, \h1043C>>, <<\h10415, \h1043D>>,
     <<\h10416, \h1043E>>, <<\h10417, \h1043F>>, <<\h10418, \h10440>>,
     <<\h10419, \h10441>>, <<\h1041A, \h10442>>, <<\h1041B, \h10443>>,
     <<\h1041C, \h10444>>, <<\h1041D, \h10445>>, <<\h1041E, \h10446>>,
     <<\h1041F, \h10447>>, <<\h10420, \h10448>>, <<\h10421, \h10449>>,
     <<\h10422, \h1044A>>, <<\h10423, \h1044B>>, <<\h10424, \h1044C>>,
     <<\h10425, \h1044D>>, <<\h10426, \h1044E>>, <<\h10427, \h1044F>>,
     <<\h104B0, \h104D8>>, <<\h104B1, \h104D9>>, <<\h104B2, \h104DA>>,
     <<\h104B3, \h104DB>>, <<\h104B4, \h104DC>>, <<\h104B5, \h104DD>>,
     <<\h104B6, \h104DE>>, <<\h104B7, \h104DF>>, <<\h104B8, \h104E0>>,
     <<\h104B9, \h104E1>>, <<\h104BA, \h104E2>>, <<\h104BB, \h104E3>>,
     <<\h104BC, \h104E4>>, <<\h104BD, \h104E5>>, <<\h104BE, \h104E6>>,
     <<\h104BF, \h104E7>>, <<\h104C0, \h104E8>>, <<\h104C1, \h104E9>>,
     <<\h104C2, \h104EA>>, <<\h104C3, \h104EB>>, <<\h104C4, \h104EC>>,
     <<\h104C5, \h104ED>>, <<\h104C6, \h104EE>>, <<\h104C7, \h104EF>>,
     <<\h104C8, \h104F0>>, <<\h104C9, \h104F1>>, <<\h104CA, \h104F2>>,
     <<\h104CB, \h104F3>>, <<\h104CC, \h104F4>>, <<\h104CD, \h104F5>>,
     <<\h104CE, \h104F6>>, <<\h104CF, \h104F7>>, <<\h104D0, \h104F8>>,
     <<\h104D1, \h104F9>>, <<\h104D2, \h104FA>>, <<\h104D3, \h104FB>>,
     <<\h10570, \h10597>>, <<\h10571, \h10598>>, <<\h10572, \h10599>>,
     <<\h10573, \h1059A>>, <<\h10574, \h1059B>>, <<\h10575, \h1059C>>,
     <<\h10576, \h1059D>>, <<\h10577, \h1059E>>, <<\h10578, \h1059F>>,
     <<\h10579, \h105A0>>, <<\h1057A, \h105A1>>, <<\h1057C, \h105A3>>,
     <<\h1057D, \h105A4>>, <<\h1057E, \h105A5>>, <<\h1057F, \h105A6>>,
     <<\h10580, \h105A7>>, <<\h10581, \h105A8>>, <<\h10582, \h105A9>>,
     <<\h10583, \h105AA>>, <<\h10584, \h105AB>>, <<\h10585, \h105AC>>,
     <<\h10586, \h105AD>>, <<\h10587, \h105AE>>, <<\h10588, \h105AF>>,
     <<\h10589, \h105B0>>, <<\h1058A, \h105B1>>, <<\h1058C, \h105B3>>,
     <<\h1058D, \h105B4>>, <<\h1058E, \h105B5>>, <<\h1058F, \h105B6>>,
     <<\h10590, \h105B7>>, <<\h10591, \h105B8>>, <<\h10592, \h105B9>>,
     <<\h10594, \h105BB>>, <<\h10595, \h105BC>>, <<\h10C80, \h10CC0>>,
     <<\h10C81, \h10CC1>>, <<\h10C82, \h10CC2>>, <<\h10C83, \h10CC3>>,
     <<\h10C84, \h10CC4>>, <<\h10C85, \h10CC5>>, <<\h10C86, \h10CC6>>,
     <<\h10C87, \h10CC7>>, <<\h10C88, \h10CC8>>, <<\h10C89, \h10CC9>>,
     <<\h10C8A, \h10CCA>>, <<\h10C8B, \h10CCB>>, <<\h10C8C, \h10CCC>>,
     <<\h10C8D, \h10CCD>>, <<\h10C8E, \h10CCE>>, <<\h10C8F, \h10CCF>>,
     <<\h10C90, \h10CD0>>, <<\h10C91, \h10CD1>>, <<\h10C92, \h10CD2>>,
     <<\h10C93, \h10CD3>>, <<\h10C94, \h10CD4>>, <<\h10C95, \h10CD5>>,
     <<\h10C96, \h10CD6>>, <<\h10C97, \h10CD7>>, <<\h10C98, \h10CD8>>,
     <<\h10C99, \h10CD9>>, <<\h10C9A, \h10CDA>>, <<\h10C9B, \h10CDB>>,
     <<\h10C9C, \h10CDC>>, <<\h10C9D, \h10CDD>>, <<\h10C9E, \h10CDE>>,
     <<\h10C9F, \h10CDF>>, <<\h10CA0, \h10CE0>>, <<\h10CA1, \h10CE1>>,
     <<\h10CA2, \h10CE2>>, <<\h10CA3, \h10CE3>>, <<\h10CA4, \h10CE4>>,
     <<\h10CA5, \h10CE5>>, <<\h10CA6, \h10CE6>>, <<\h10CA7, \h10CE7>>,
     <<\h10CA8, \h10CE8>>, <<\h10CA9, \h10CE9>>, <<\h10CAA, \h10CEA>>,
     <<\h10CAB, \h10CEB>>, <<\h10CAC, \h10CEC>>, <<\h10CAD, \h10CED>>,
     <<\h10CAE, \h10CEE>>, <<\h10CAF, \h10CEF>>, <<\h10CB0, \h10CF0>>,
     <<\h10CB1, \h10CF1>>, <<\h10CB2, \h10CF2>>, <<\h118A0, \h118C0>>,
     <<\h118A1, \h118C1>>, <<\h118A2, \h118C2>>, <<\h118A3, \h118C3>>,
     <<\h118A4, \h118C4>>, <<\h118A5, \h118C5>>, <<\h118A6, \h118C6>>,
     <<\h118A7, \h118C7>>, <<\h118A8, \h118C8>>, <<\h118A9, \h118C9>>,
     <<\h118AA, \h118CA>>, <<\h118AB, \h118CB>>, <<\h118AC, \h118CC>>,
     <<\h118AD, \h118CD>>, <<\h118AE, \h118CE>>, <<\h118AF, \h118CF>>,
     <<\h118B0, \h118D0>>, <<\h118B1, \h118D1>>, <<\h118B2, \h118D2>>,
     <<\h118B3, \h118D3>>, <<\h118B4, \h118D4>>, <<\h118B5, \h118D5>>,
     <<\h118B6, \h118D6>>, <<\h118B7, \h118D7>>, <<\h118B8, \h118D8>>,
     <<\h118B9, \h118D9>>, <<\h118BA, \h118DA>>, <<\h118BB, \h118DB>>,
     <<\h118BC, \h118DC>>, <<\h118BD, \h118DD>>, <<\h118BE, \h118DE>>,
     <<\h118BF, \h118DF>>, <<\h16E40, \h16E60>>, <<\h16E41, \h16E61>>,
     <<\h16E42, \h16E62>>, <<\h16E43, \h16E63>>, <<\h16E44, \h16E64>>,
     <<\h16E45, \h16E65>>, <<\h16E46, \h16E66>>, <<\h16E47, \h16E67>>,
     <<\h16E48, \h16E68>>, <<\h16E49, \h16E69>>, <<\h16E4A, \h16E6A>>,
     <<\h16E4B, \h16E6B>>, <<\h16E4C, \h16E6C>>, <<\h16E4D, \h16E6D>>,
     <<\h16E4E, \h16E6E>>, <<\h16E4F, \h16E6F>>, <<\h16E50, \h16E70>>,
     <<\h16E51, \h16E71>>, <<\h16E52, \h16E72>>, <<\h16E53, \h16E73>>,
     <<\h16E54, \h16E74>>, <<\h16E55, \h16E75>>, <<\h16E56, \h16E76>>,
     <<\h16E57, \h16E77>>, <<\h16E58, \h16E78>>, <<\h16E59, \h16E79>>,
     <<\h16E5A, \h16E7A>>, <<\h16E5B, \h16E7B>>, <<\h16E5C, \h16E7C>>,
     <<\h16E5D, \h16E7D>>, <<\h16E5E, \h16E7E>>, <<\h16E5F, \h16E7F>>,
     <<\h1E900, \h1E922>>, <<\h1E901, \h1E923>>, <<\h1E902, \h1E924>>,
     <<\h1E903, \h1E925>>, <<\h1E904, \h1E926>>, <<\h1E905, \h1E927>>,
     <<\h1E906, \h1E928>>, <<\h1E907, \h1E929>>, <<\h1E908, \h1E92A>>,
     <<\h1E909, \h1E92B>>, <<\h1E90A, \h1E92C>>, <<\h1E90B, \h1E92D>>,
     <<\h1E90C, \h1E92E>>, <<\h1E90D, \h1E92F>>, <<\h1E90E, \h1E930>>,
     <<\h1E90F, \h1E931>>, <<\h1E910, \h1E932>>, <<\h1E911, \h1E933>>,
     <<\h1E912, \h1E934>>, <<\h1E913, \h1E935>>, <<\h1E914, \h1E936>>,
     <<\h1E915, \h1E937>>, <<\h1E916, \h1E938>>, <<\h1E917, \h1E939>>,
     <<\h1E918, \h1E93A>>, <<\h1E919, \h1E93B>>, <<\h1E91A, \h1E93C>>,
     <<\h1E91B, \h1E93D>>, <<\h1E91C, \h1E93E>>, <<\h1E91D, \h1E93F>>,
     <<\h1E91E, \h1E940>>, <<\h1E91F, \h1E941>>, <<\h1E920, \h1E942>>,
     <<\h1E921, \h1E943>>}
\* variant: the family names are matched as they are spelled
lower_unchanged(chars) == chars

\* the characters str.lower() passes over when it looks for the cased neighbours of a
\* capital sigma, as ranges of code points (first, last)
CaseIgnorable ==
    {<<\h0027, \h0027>>, <<\h002E, \h002E>>, <<\h003A, \h003A>>, <<\h005E, \h005E>>,
     <<\h0060, \h0060>>, <<\h00A8, \h00A8>>, <<\h00AD, \h00AD>>, <<\h00AF, \h00AF>>,
     <<\h00B4, \h00B4>>, <<\h00B7, \h00B8>>, <<\h02B0, \h036F>>, <<\h0374, \h0375>>,
     <<\h037A, \h037A>>, <<\h0384, \h0385>>, <<\h0387, \h0387>>, <<\h0483, \h0489>>,
     <<\h0559, \h0559>>, <<\h055F, \h055F>>, <<\h0591, \h05BD>>, <<\h05BF, \h05BF>>,
     <<\h05C1, \h05C2>>, <<\h05C4, \h05C5>>, <<\h05C7, \h05C7>>, <<\h05F4, \h05F4>>,
     <<\h0600, \h0605>>, <<\h0610, \h061A>>, <<\h061C, \h061C>>, <<\h0640, \h0640>>,
     <<\h064B, \h065F>>, <<\h0670, \h0670>>, <<\h06D6, \h06DD>>, <<\h06DF, \h06E8>>,
     <<\h06EA, \h06ED>>, <<\h070F, \h070F>>, <<\h0711, \h0711>>, <<\h0730, \h074A>>,
     <<\h07A6, \h07B0>>, <<\h07EB, \h07F5>>, <<\h07FA, \h07FA>>, <<\h07FD, \h07FD>>,
     <<\h0816, \h082D>>, <<\h0859, \h085B>>, <<\h0888, \h0888>>, <<\h0890, \h0891>>,
     <<\h0898, \h089F>>, <<\h08C9, \h0902>>, <<\h093A, \h093A>>, <<\h093C, \h093C>>,
     <<\h0941, \h0948>>, <<\h094D, \h094D>>, <<\h0951, \h0957>>, <<\h0962, \h0963>>,
     <<\h0971, \h0971>>, <<\h0981, \h0981>>, <<\h09BC, \h09BC>>, <<\h09C1, \h09C4>>,
     <<\h09CD, \h09CD>>, <<\h09E2, \h09E3>>, <<\h09FE, \h09FE>>, <<\h0A01, \h0A02>>,
     <<\h0A3C, \h0A3C>>, <<\h0A41, \h0A42>>, <<\h0A47, \h0A48>>, <<\h0A4B, \h0A4D>>,
     <<\h0A51, \h0A51>>, <<\h0A70, \h0A71>>, <<\h0A75, \h0A75>>, <<\h0A81, \h0A82>>,
     <<\h0ABC, \h0ABC>>, <<\h0AC1, \h0AC5>>, <<\h0AC7, \h0AC8>>, <<\h0ACD, \h0ACD>>,
     <<\h0AE2, \h0AE3>>, <<\h0AFA, \h0AFF>>, <<\h0B01, \h0B01>>, <<\h0B3C, \h0B3C>>,
     <<\h0B3F, \h0B3F>>, <<\h0B41, \h0B44>>, <<\h0B4D, \h0B4D>>, <<\h0B55, \h0B56>>,
     <<\h0B62, \h0B63>>, <<\h0B82, \h0B82>>, <<\h0BC0, \h0BC0>>, <<\h0BCD, \h0BCD>>,
     <<\h0C00, \h0C00>>, <<\h0C04, \h0C04>>, <<\h0C3C, \h0C3C>>, <<\h0C3E, \h0C40>>,
     <<\h0C46, \h0C48>>, <<\h0C4A, \h0C4D>>, <<\h0C55, \h0C56>>, <<\h0C62, \h0C63>>,
     <<\h0C81, \h0C81>>, <<\h0CBC, \h0CBC>>, <<\h0CBF, \h0CBF>>, <<\h0CC6, \h0CC6>>,
     <<\h0CCC, \h0CCD>>, <<\h0CE2, \h0CE3>>, <<\h0D00, \h0D01>>, <<\h0D3B, \h0D3C>>,
     <<\h0D41, \h0D44>>, <<\h0D4D, \h0D4D>>, <<\h0D62, \h0D63>>, <<\h0D81, \h0D81>>,
     <<\h0DCA, \h0DCA>>, <<\h0DD2, \h0DD4>>, <<\h0DD6, \h0DD6>>, <<\h0E31, \h0E31>>,
     <<\h0E34, \h0E3A>>, <<\h0E46, \h0E4E>>, <<\h0EB1, \h0EB1>>, <<\h0EB4, \h0EBC>>,
     <<\h0EC6, \h0EC6>>, <<\h0EC8, \h0ECD>>, <<\h0F18, \h0F19>>, <<\h0F35, \h0F35>>,
     <<\h0F37, \h0F37>>, <<\h0F39, \h0F39>>, <<\h0F71, \h0F7E>>, <<\h0F80, \h0F84>>,
     <<\h0F86, \h0F87>>, <<\h0F8D, \h0F97>>, <<\h0F99, \h0FBC>>, <<\h0FC6, \h0FC6>>,
     <<\h102D, \h1030>>, <<\h1032, \h1037>>, <<\h1039, \h103A>>, <<\h103D, \h103E>>,
     <<\h1058, \h1059>>, <<\h105E, \h1060>>, <<\h1071, \h1074>>, <<\h1082, \h1082>>,
     <<\h1085, \h1086>>, <<\h108D, \h108D>>, <<\h109D, \h109D>>, <<\h10FC, \h10FC>>,
     <<\h135D, \h135F>>, <<\h1712, \h1714>>, <<\h1732, \h1733>>, <<\h1752, \h1753>>,
     <<\h1772, \h1773>>, <<\h17B4, \h17B5>>, <<\h17B7, \h17BD>>, <<\h17C6, \h17C6>>,
     <<\h17C9, \h17D3>>, <<\h17D7, \h17D7>>, <<\h17DD, \h17DD>>, <<\h180B, \h180F>>,
     <<\h1843, \h1843>>, <<\h1885, \h1886>>, <<\h18A9, \h18A9>>, <<\h1920, \h1922>>,
     <<\h1927, \h1928>>, <<\h1932, \h1932>>, <<\h1939, \h193B>>, <<\h1A17, \h1A18>>,
     <<\h1A1B, \h1A1B>>, <<\h1A56, \h1A56>>, <<\h1A58, \h1A5E>>, <<\h1A60, \h1A60>>,
     <<\h1A62, \h1A62>>, <<\h1A65, \h1A6C>>, <<\h1A73, \h1A7C>>, <<\h1A7F, \h1A7F>>,
     <<\h1AA7, \h1AA7>>, <<\h1AB0, \h1ACE>>, <<\h1B00, \h1B03>>, <<\h1B34, \h1B34>>,
     <<\h1B36, \h1B3A>>, <<\h1B3C, \h1B3C>>, <<\h1B42, \h1B42>>, <<\h1B6B, \h1B73>>,
     <<\h1B80, \h1B81>>, <<\h1BA2, \h1BA5>>, <<\h1BA8, \h1BA9>>, <<\h1BAB, \h1BAD>>,
     <<\h1BE6, \h1BE6>>, <<\h1BE8, \h1BE9>>, <<\h1BED, \h1BED>>, <<\h1BEF, \h1BF1>>,
     <<\h1C2C, \h1C33>>, <<\h1C36, \h1C37>>, <<\h1C78, \h1C7D>>, <<\h1CD0, \h1CD2>>,
     <<\h1CD4, \h1CE0>>, <<\h1CE2, \h1CE8>>, <<\h1CED, \h1CED>>, <<\h1CF4, \h1CF4>>,
     <<\h1CF8, \h1CF9>>, <<\h1D2C, \h1D6A>>, <<\h1D78, \h1D78>>, <<\h1D9B, \h1DFF>>,
     <<\h1FBD, \h1FBD>>, <<\h1FBF, \h1FC1>>, <<\h1FCD, \h1FCF>>, <<\h1FDD, \h1FDF>>,
     <<\h1FED, \h1FEF>>, <<\h1FFD, \h1FFE>>, <<\h200B, \h200F>>, <<\h2018, \h2019>>,
     <<\h2024, \h2024>>, <<\h2027, \h2027>>, <<\h202A, \h202E>>, <<\h2060, \h2064>>,
     <<\h2066, \h206F>>, <<\h2071, \h2071>>, <<\h207F, \h207F>>, <<\h2090, \h209C>>,
     <<\h20D0, \h20F0>>, <<\h2C7C, \h2C7D>>, <<\h2CEF, \h2CF1>>, <<\h2D6F, \h2D6F>>,
     <<\h2D7F, \h2D7F>>, <<\h2DE0, \h2DFF>>, <<\h2E2F, \h2E2F>>, <<\h3005, \h3005>>,
     <<\h302A, \h302D>>, <<\h3031, \h3035>>, <<\h303B, \h303B>>, <<\h3099, \h309E>>,
     <<\h30FC, \h30FE>>, <<\hA015, \hA015>>, <<\hA4F8, \hA4FD>>, <<\hA60C, \hA60C>>,
     <<\hA66F, \hA672>>, <<\hA674, \hA67D>>, <<\hA67F, \hA67F>>, <<\hA69C, \hA69F>>,
     <<\hA6F0, \hA6F1>>, <<\hA700, \hA721>>, <<\hA770, \hA770>>, <<\hA788, \hA78A>>,
     <<\hA7F2, \hA7F4>>, <<\hA7F8, \hA7F9>>, <<\hA802, \hA802>>, <<\hA806, \hA806>>,
     <<\hA80B, \hA80B>>, <<\hA825, \hA826>>, <<\hA82C, \hA82C>>, <<\hA8C4, \hA8C5>>,
     <<\hA8E0, \hA8F1>>, <<\hA8FF, \hA8FF>>, <<\hA926, \hA92D>>, <<\hA947, \hA951>>,
     <<\hA980, \hA982>>, <<\hA9B3, \hA9B3>>, <<\hA9B6, \hA9B9>>, <<\hA9BC, \hA9BD>>,
     <<\hA9CF, \hA9CF>>, <<\hA9E5, \hA9E6>>, <<\hAA29, \hAA2E>>, <<\hAA31, \hAA32>>,
     <<\hAA35, \hAA36>>, <<\hAA43, \hAA43>>, <<\hAA4C, \hAA4C>>, <<\hAA70, \hAA70>>,
     <<\hAA7C, \hAA7C>>, <<\hAAB0, \hAAB0>>, <<\hAAB2, \hAAB4>>, <<\hAAB7, \hAAB8>>,
     <<\hAABE, \hAABF>>, <<\hAAC1, \hAAC1>>, <<\hAADD, \hAADD>>, <<\hAAEC, \hAAED>>,
     <<\hAAF3, \hAAF4>>, <<\hAAF6, \hAAF6>>, <<\hAB5B, \hAB5F>>, <<\hAB69, \hAB6B>>,
     <<\hABE5, \hABE5>>, <<\hABE8, \hABE8>>, <<\hABED, \hABED>>, <<\hFB1E, \hFB1E>>,
     <<\hFBB2, \hFBC2>>, <<\hFE00, \hFE0F>>, <<\hFE13, \hFE13>>, <<\hFE20, \hFE2F>>,
     <<\hFE52, \hFE52>>, <<\hFE55, \hFE55>>, <<\hFEFF, \hFEFF>>, <<\hFF07, \hFF07>>,
     <<\hFF0E, \hFF0E>>, <<\hFF1A, \hFF1A>>, <<\hFF3E, \hFF3E>>, <<\hFF40, \hFF40>>,
     <<\hFF70, \hFF70>>, <<\hFF9E, \hFF9F>>, <<\hFFE3, \hFFE3>>, <<\hFFF9, \hFFFB>>,
     <<\h101FD, \h101FD>>, <<\h102E0, \h102E0>>, <<\h10376, \h1037A>>,
     <<\h10780, \h10785>>, <<\h10787, \h107B0>>, <<\h107B2, \h107BA>>,
     <<\h10A01, \h10A03>>, <<\h10A05, \h10A06>>, <<\h10A0C, \h10A0F>>,
     <<\h10A38, \h10A3A>>, <<\h10A3F, \h10A3F>>, <<\h10AE5, \h10AE6>>,
     <<\h10D24, \h10D27>>, <<\h10EAB, \h10EAC>>, <<\h10F46, \h10F50>>,
     <<\h10F82, \h10F85>>, <<\h11001, \h11001>>, <<\h11038, \h11046>>,
     <<\h11070, \h11070>>, <<\h11073, \h11074>>, <<\h1107F, \h11081>>,
     <<\h110B3, \h110B6>>, <<\h110B9, \h110BA>>, <<\h110BD, \h110BD>>,
     <<\h110C2, \h110C2>>, <<\h110CD, \h110CD>>, <<\h11100, \h11102>>,
     <<\h11127, \h1112B>>, <<\h1112D, \h11134>>, <<\h11173, \h11173>>,
     <<\h11180, \h11181>>, <<\h111B6, \h111BE>>, <<\h111C9, \h111CC>>,
     <<\h111CF, \h111CF>>, <<\h1122F, \h11231>>, <<\h11234, \h11234>>,
     <<\h11236, \h11237>>, <<\h1123E, \h1123E>>, <<\h112DF, \h112DF>>,
     <<\h112E3, \h112EA>>, <<\h11300, \h11301>>, <<\h1133B, \h1133C>>,
     <<\h11340, \h11340>>, <<\h11366, \h1136C>>, <<\h11370, \h11374>>,
     <<\h11438, \h1143F>>, <<\h11442, \h11444>>, <<\h11446, \h11446>>,
     <<\h1145E, \h1145E>>, <<\h114B3, \h114B8>>, <<\h114BA, \h114BA>>,
     <<\h114BF, \h114C0>>, <<\h114C2, \h114C3>>, <<\h115B2, \h115B5>>,
     <<\h115BC, \h115BD>>, <<\h115BF, \h115C0>>, <<\h115DC, \h115DD>>,
     <<\h11633, \h1163A>>, <<\h1163D, \h1163D>>, <<\h1163F, \h11640>>,
     <<\h116AB, \h116AB>>, <<\h116AD, \h116AD>>, <<\h116B0, \h116B5>>,
     <<\h116B7, \h116B7>>, <<\h1171D, \h1171F>>, <<\h11722, \h11725>>,
     <<\h11727, \h1172B>>, <<\h1182F, \h11837>>, <<\h11839, \h1183A>>,
     <<\h1193B, \h1193C>>, <<\h1193E, \h1193E>>, <<\h11943, \h11943>>,
     <<\h119D4, \h119D7>>, <<\h119DA, \h119DB>>, <<\h119E0, \h119E0>>,
     <<\h11A01, \h11A0A>>, <<\h11A33, \h11A38>>, <<\h11A3B, \h11A3E>>,
     <<\h11A47, \h11A47>>, <<\h11A51, \h11A56>>, <<\h11A59, \h11A5B>>,
     <<\h11A8A, \h11A96>>, <<\h11A98, \h11A99>>, <<\h11C30, \h11C36>>,
     <<\h11C38, \h11C3D>>, <<\h11C3F, \h11C3F>>, <<\h11C92, \h11CA7>>,
     <<\h11CAA, \h11CB0>>, <<\h11CB2, \h11CB3>>, <<\h11CB5, \h11CB6>>,
     <<\h11D31, \h11D36>>, <<\h11D3A, \h11D3A>>, <<\h11D3C, \h11D3D>>,
     <<\h11D3F, \h11D45>>, <<\h11D47, \h11D47>>, <<\h11D90, \h11D91>>,
     <<\h11D95, \h11D95>>, <<\h11D97, \h11D97>>, <<\h11EF3, \h11EF4>>,
     <<\h13430, \h13438>>, <<\h16AF0, \h16AF4>>, <<\h16B30, \h16B36>>,
     <<\h16B40, \h16B43>>, <<\h16F4F, \h16F4F>>, <<\h16F8F, \h16F9F>>,
     <<\h16FE0, \h16FE1>>, <<\h16FE3, \h16FE4>>, <<\h1AFF0, \h1AFF3>>,
     <<\h1AFF5, \h1AFFB>>, <<\h1AFFD, \h1AFFE>>, <<\h1BC9D, \h1BC9E>>,
     <<\h1BCA0, \h1BCA3>>, <<\h1CF00, \h1CF2D>>, <<\h1CF30, \h1CF46>>,
     <<\h1D167, \h1D169>>, <<\h1D173, \h1D182>>, <<\h1D185, \h1D18B>>,
     <<\h1D1AA, \h1D1AD>>, <<\h1D242, \h1D244>>, <<\h1DA00, \h1DA36>>,
     <<\h1DA3B, \h1DA6C>>, <<\h1DA75, \h1DA75>>, <<\h1DA84, \h1DA84>>,
     <<\h1DA9B, \h1DA9F>>, <<\h1DAA1, \h1DAAF>>, <<\h1E000, \h1E006>>,
     <<\h1E008, \h1E018>>, <<\h1E01B, \h1E021>>, <<\h1E023, \h1E024>>,
     <<\h1E026, \h1E02A>>, <<\h1E130, \h1E13D>>, <<\h1E2AE, \h1E2AE>>,
     <<\h1E2EC, \h1E2EF>>, <<\h1E8D0, \h1E8D6>>, <<\h1E944, \h1E94B>>,
     <<\h1F3FB, \h1F3FF>>, <<\hE0001, \hE0001>>, <<\hE0020, \hE007F>>,
     <<\hE0100, \hE01EF>>}

\* the cased characters that are not passed over, as ranges of code points
Cased ==
    {<<\h0041, \h005A>>, <<\h0061, \h007A>>, <<\h00AA, \h00AA>>, <<\h00B5, \h00B5>>,
     <<\h00BA, \h00BA>>, <<\h00C0, \h00D6>>, <<\h00D8, \h00F6>>, <<\h00F8, \h01BA>>,
     <<\h01BC, \h01BF>>, <<\h01C4, \h0293>>, <<\h0295, \h02AF>>, <<\h0370, \h0373>>,
     <<\h0376, \h0377>>, <<\h037B, \h037D>>, <<\h037F, \h037F>>, <<\h0386, \h0386>>,
     <<\h0388, \h038A>>, <<\h038C, \h038C>>, <<\h038E, \h03A1>>, <<\h03A3, \h03F5>>,
     <<\h03F7, \h0481>>, <<\h048A, \h052F>>, <<\h0531, \h0556>>, <<\h0560, \h0588>>,
     <<\h10A0, \h10C5>>, <<\h10C7, \h10C7>>, <<\h10CD, \h10CD>>, <<\h10D0, \h10FA>>,
     <<\h10FD, \h10FF>>, <<\h13A0, \h13F5>>, <<\h13F8, \h13FD>>, <<\h1C80, \h1C88>>,
     <<\h1C90, \h1CBA>>, <<\h1CBD, \h1CBF>>, <<\h1D00, \h1D2B>>, <<\h1D6B, \h1D77>>,
     <<\h1D79, \h1D9A>>, <<\h1E00, \h1F15>>, <<\h1F18, \h1F1D>>, <<\h1F20, \h1F45>>,
     <<\h1F48, \h1F4D>>, <<\h1F50, \h1F57>>, <<\h1F59, \h1F59>>, <<\h1F5B, \h1F5B>>,
     <<\h1F5D, \h1F5D>>, <<\h1F5F, \h1F7D>>, <<\h1F80, \h1FB4>>, <<\h1FB6, \h1FBC>>,
     <<\h1FBE, \h1FBE>>, <<\h1FC2, \h1FC4>>, <<\h1FC6, \h1FCC>>, <<\h1FD0, \h1FD3>>,
     <<\h1FD6, \h1FDB>>, <<\h1FE0, \h1FEC>>, <<\h1FF2, \h1FF4>>, <<\h1FF6, \h1FFC>>,
     <<\h2102, \h2102>>, <<\h2107, \h2107>>, <<\h210A, \h2113>>, <<\h2115, \h2115>>,
     <<\h2119, \h211D>>, <<\h2124, \h2124>>, <<\h2126, \h2126>>, <<\h2128, \h2128>>,
     <<\h212A, \h212D>>, <<\h212F, \h2134>>, <<\h2139, \h2139>>, <<\h213C, \h213F>>,
     <<\h2145, \h2149>>, <<\h214E, \h214E>>, <<\h2160, \h217F>>, <<\h2183, \h2184>>,
     <<\h24B6, \h24E9>>, <<\h2C00, \h2C7B>>, <<\h2C7E, \h2CE4>>, <<\h2CEB, \h2CEE>>,
     <<\h2CF2, \h2CF3>>, <<\h2D00, \h2D25>>, <<\h2D27, \h2D27>>, <<\h2D2D, \h2D2D>>,
     <<\hA640, \hA66D>>, <<\hA680, \hA69B>>, <<\hA722, \hA76F>>, <<\hA771, \hA787>>,
     <<\hA78B, \hA78E>>, <<\hA790, \hA7CA>>, <<\hA7D0, \hA7D1>>, <<\hA7D3, \hA7D3>>,
     <<\hA7D5, \hA7D9>>, <<\hA7F5, \hA7F6>>, <<\hA7FA, \hA7FA>>, <<\hAB30, \hAB5A>>,
     <<\hAB60, \hAB68>>, <<\hAB70, \hABBF>>, <<\hFB00, \hFB06>>, <<\hFB13, \hFB17>>,
     <<\hFF21, \hFF3A>>, <<\hFF41, \hFF5A>>, <<\h10400, \h1044F>>, <<\h104B0, \h104D3>>,
     <<\h104D8, \h104FB>>, <<\h10570, \h1057A>>, <<\h1057C, \h1058A>>,
     <<\h1058C, \h10592>>, <<\h10594, \h10595>>, <<\h10597, \h105A1>>,
     <<\h105A3, \h105B1>>, <<\h105B3, \h105B9>>, <<\h105BB, \h105BC>>,
     <<\h10C80, \h10CB2>>, <<\h10CC0, \h10CF2>>, <<\h118A0, \h118DF>>,
     <<\h16E40, \h16E7F>>, <<\h1D400, \h1D454>>, <<\h1D456, \h1D49C>>,
     <<\h1D49E, \h1D49F>>, <<\h1D4A2, \h1D4A2>>, <<\h1D4A5, \h1D4A6>>,
     <<\h1D4A9, \h1D4AC>>, <<\h1D4AE, \h1D4B9>>, <<\h1D4BB, \h1D4BB>>,
     <<\h1D4BD, \h1D4C3>>, <<\h1D4C5, \h1D505>>, <<\h1D507, \h1D50A>>,
     <<\h1D50D, \h1D514>>, <<\h1D516, \h1D51C>>, <<\h1D51E, \h1D539>>,
     <<\h1D53B, \h1D53E>>, <<\h1D540, \h1D544>>, <<\h1D546, \h1D546>>,
     <<\h1D54A, \h1D550>>, <<\h1D552, \h1D6A5>>, <<\h1D6A8, \h1D6C0>>,
     <<\h1D6C2, \h1D6DA>>, <<\h1D6DC, \h1D6FA>>, <<\h1D6FC, \h1D714>>,
     <<\h1D716, \h1D734>>, <<\h1D736, \h1D74E>>, <<\h1D750, \h1D76E>>,
     <<\h1D770, \h1D788>>, <<\h1D78A, \h1D7A8>>, <<\h1D7AA, \h1D7C2>>,
     <<\h1D7C4, \h1D7CB>>, <<\h1DF00, \h1DF09>>, <<\h1DF0B, \h1DF1E>>,
     <<\h1E900, \h1E943>>, <<\h1F130, \h1F149>>, <<\h1F150, \h1F169>>,
     <<\h1F170, \h1F189>>}

\* c lies in one of the ranges
in_ranges(c, table) == \E range \in table : range[1] <= c /\ c <= range[2]

\* c.lower() for one character other than U+03A3: one character, or two for U+0130
lower_char(c) ==
    IF 65 <= c /\ c <= 90 THEN <<c + 32>>    \* "A" to "Z"
    ELSE IF c < 128 THEN <<c>>
    ELSE LET images == {Tail(row) : row \in {r \in UNICODE_LOWER : r[1] = c}}
         IN  IF images = {} THEN <<c>> ELSE CHOOSE image \in images : TRUE

\* the capital sigma at chars[i] ends a word: the nearest character before it that is
\* not passed over is cased, and the nearest one after it, if any, is not
final_sigma(chars, i) ==
    LET before == {j \in 1..(i - 1) : ~in_ranges(chars[j], CaseIgnorable)}
        after == {j \in (i + 1)..Len(chars) : ~in_ranges(chars[j], CaseIgnorable)}
    IN  /\ before # {}
        /\ in_ranges(chars[CHOOSE j \in before : \A k \in before : k <= j], Cased)
        /\ after = {} \/ ~in_ranges(chars[MinOf(after)], Cased)

\* the characters chars[i] becomes in chars.lower(): U+03A3 becomes the final sigma
\* U+03C2 at the end of a word and U+03C3 elsewhere
lower_at(chars, i) ==
    IF chars[i] = \h03A3
    THEN IF final_sigma(chars, i) THEN <<\h03C2>> ELSE <<\h03C3>>
    ELSE lower_char(chars[i])

RECURSIVE lower_join(_, _)
lower_join(chars, i) ==
    IF i > Len(chars) THEN <<>> ELSE lower_at(chars, i) \o lower_join(chars, i + 1)

\* str.lower() on the characters of a str
lower(chars) == lower_join(chars, 1)

\* key in d, for a dict d
dict_has(d, key) == \E i \in 1..Len(d.pairs) : d.pairs[i][1] = key

\* d[key], for a dict d that has the key
dict_item(d, key) ==
    d.pairs[CHOOSE i \in 1..Len(d.pairs) : d.pairs[i][1] = key][2]

\* the outcome of evaluating an expression: a value, or an exception raised
Returns(value) == [raised |-> FALSE, value |-> value]

Raises(type, msg) == [raised |-> TRUE, exc |-> [type |-> type, msg |-> msg]]

T_str ==
    <<115, 116, 114>>    \* "str"

T_NoneType ==
    <<78, 111, 110, 101, 84, 121, 112, 101>>    \* "NoneType"

T_int ==
    <<105, 110, 116>>    \* "int"

T_list ==
    <<108, 105, 115, 116>>    \* "list"

T_dict ==
    <<100, 105, 99, 116>>    \* "dict"

TypeName(v) ==
    CASE v.type = "str" -> T_str
      [] v.type = "NoneType" -> T_NoneType
      [] v.type = "int" -> T_int
      [] v.type = "list" -> T_list
      [] OTHER -> T_dict

MSG_QUOTE ==
    <<39>>    \* "'"

MSG_NO_ATTRIBUTE_GET ==
    \* "' object has no attribute 'get'"
    <<39, 32, 111, 98, 106, 101, 99, 116, 32, 104, 97, 115, 32, 110, 111, 32, 97, 116, 116,
            114, 105, 98, 117, 116, 101, 32, 39, 103, 101, 116, 39>>

MSG_NOT_SUBSCRIPTABLE ==
    \* "' object is not subscriptable"
    <<39, 32, 111, 98, 106, 101, 99, 116, 32, 105, 115, 32, 110, 111, 116, 32, 115, 117, 98,
            115, 99, 114, 105, 112, 116, 97, 98, 108, 101>>

MSG_LIST_INDEX ==
    \* "list index out of range"
    <<108, 105, 115, 116, 32, 105, 110, 100, 101, 120, 32, 111, 117, 116, 32, 111, 102, 32,
            114, 97, 110, 103, 101>>

MSG_STRING_INDEX ==
    \* "string index out of range"
    <<115, 116, 114, 105, 110, 103, 32, 105, 110, 100, 101, 120, 32, 111, 117, 116, 32, 111,
            102, 32, 114, 97, 110, 103, 101>>

MSG_KEY_ZERO ==
    <<48>>    \* "0"

MSG_ARGUMENT_OF_TYPE ==
    \* "argument of type '"
    <<97, 114, 103, 117, 109, 101, 110, 116, 32, 111, 102, 32, 116, 121, 112, 101, 32, 39>>

MSG_NOT_ITERABLE ==
    \* "' is not iterable"
    <<39, 32, 105, 115, 32, 110, 111, 116, 32, 105, 116, 101, 114, 97, 98, 108, 101>>

MSG_LIST_INDICES ==
    \* "list indices must be integers or slices, not str"
    <<108, 105, 115, 116, 32, 105, 110, 100, 105, 99, 101, 115, 32, 109, 117, 115, 116, 32,
            98, 101, 32, 105, 110, 116, 101, 103, 101, 114, 115, 32, 111, 114, 32, 115, 108,
            105, 99, 101, 115, 44, 32, 110, 111, 116, 32, 115, 116, 114>>

MSG_STRING_INDICES ==
    \* "string indices must be integers, not 'str'"
    <<115, 116, 114, 105, 110, 103, 32, 105, 110, 100, 105, 99, 101, 115, 32, 109, 117, 115,
            116, 32, 98, 101, 32, 105, 110, 116, 101, 103, 101, 114, 115, 44, 32, 110, 111,
            116, 32, 39, 115, 116, 114, 39>>

MSG_NOT_JSON ==
    \* "Expecting value: line 1 column 1 (char 0)"
    <<69, 120, 112, 101, 99, 116, 105, 110, 103, 32, 118, 97, 108, 117, 101, 58, 32, 108,
            105, 110, 101, 32, 49, 32, 99, 111, 108, 117, 109, 110, 32, 49, 32, 40, 99, 104,
            97, 114, 32, 48, 41>>

MSG_NO_READ ==
    \* "'NoneType' object has no attribute 'read'"
    <<39, 78, 111, 110, 101, 84, 121, 112, 101, 39, 32, 111, 98, 106, 101, 99, 116, 32, 104,
            97, 115, 32, 110, 111, 32, 97, 116, 116, 114, 105, 98, 117, 116, 101, 32, 39,
            114, 101, 97, 100, 39>>

MSG_ACCESS_DENIED ==
    \* "An error occurred (AccessDeniedException) when calling the InvokeModel operation"
    <<65, 110, 32, 101, 114, 114, 111, 114, 32, 111, 99, 99, 117, 114, 114, 101, 100, 32, 40,
            65, 99, 99, 101, 115, 115, 68, 101, 110, 105, 101, 100, 69, 120, 99, 101, 112,
            116, 105, 111, 110, 41, 32, 119, 104, 101, 110, 32, 99, 97, 108, 108, 105, 110,
            103, 32, 116, 104, 101, 32, 73, 110, 118, 111, 107, 101, 77, 111, 100, 101, 108,
            32, 111, 112, 101, 114, 97, 116, 105, 111, 110>>

\* v.get(key, default): only a dict has get
py_get(v, key, default) ==
    IF v.type = "dict"
    THEN Returns(IF dict_has(v, key) THEN dict_item(v, key) ELSE default)
    ELSE Raises("AttributeError", MSG_QUOTE \o TypeName(v) \o MSG_NO_ATTRIBUTE_GET)

\* v[0]
py_first(v) ==
    CASE v.type = "list" ->
            IF v.items = <<>> THEN Raises("IndexError", MSG_LIST_INDEX)
            ELSE Returns(v.items[1])
      [] v.type = "str" ->
            IF v.chars = <<>> THEN Raises("IndexError", MSG_STRING_INDEX)
            ELSE Returns(PyStr(<<v.chars[1]>>))
      [] v.type = "dict" -> Raises("KeyError", MSG_KEY_ZERO)
      [] OTHER -> Raises("TypeError", MSG_QUOTE \o TypeName(v) \o MSG_NOT_SUBSCRIPTABLE)

\* key in v, for a str key
py_in(key, v) ==
    CASE v.type = "dict" -> Returns(dict_has(v, key))
      [] v.type = "list" -> Returns(\E i \in 1..Len(v.items) : v.items[i] = PyStr(key))
      [] v.type = "str" -> Returns(Contains(v.chars, key))
      [] OTHER -> Raises("TypeError", MSG_ARGUMENT_OF_TYPE \o TypeName(v) \o MSG_NOT_ITERABLE)

\* v[key], for a str key
py_item(v, key) ==
    CASE v.type = "dict" -> Returns(dict_item(v, key))
      [] v.type = "list" -> Raises("TypeError", MSG_LIST_INDICES)
      [] v.type = "str" -> Raises("TypeError", MSG_STRING_INDICES)
      [] OTHER -> Raises("TypeError", MSG_QUOTE \o TypeName(v) \o MSG_NOT_SUBSCRIPTABLE)

(***************************************************************************)
(* json.dumps(value, indent=2)                                             *)
(***************************************************************************)
RECURSIVE Spaces(_)
Spaces(n) == IF n = 0 THEN <<>> ELSE <<32>> \o Spaces(n - 1)

\* "0" to "9", "a" to "f"
HEX_DIGITS == [i \in 1..16 |-> IF i <= 10 THEN 47 + i ELSE 86 + i]

\* \uXXXX for a 16-bit code unit
unicode_escape(n) ==
    <<92, 117, HEX_DIGITS[((n \div 4096) % 16) + 1], HEX_DIGITS[((n \div 256) % 16) + 1],
      HEX_DIGITS[((n \div 16) % 16) + 1], HEX_DIGITS[(n % 16) + 1]>>

\* one character inside a JSON string literal (ensure_ascii): the short escapes, \uXXXX
\* for every other character outside space..~, a surrogate pair above U+FFFF
EscapeChar(ch) ==
    CASE ch = 34 -> <<92, 34>>    \* the double quote: backslash, double quote
      [] ch = 92 -> <<92, 92>>    \* the backslash: two of them
      [] ch = 10 -> <<92, 110>>   \* \n
      [] ch = 9 -> <<92, 116>>    \* \t
      [] ch = 13 -> <<92, 114>>   \* \r
      [] ch = 12 -> <<92, 102>>   \* \f
      [] ch = 8 -> <<92, 98>>     \* \b
      [] 32 <= ch /\ ch <= 126 -> <<ch>>
      [] ch < 65536 -> unicode_escape(ch)
      [] OTHER -> unicode_escape(55296 + ((ch - 65536) \div 1024))
                      \o unicode_escape(56320 + ((ch - 65536) % 1024))

RECURSIVE EscapeChars(_)
EscapeChars(chars) ==
    IF chars = <<>> THEN <<>> ELSE EscapeChar(Head(chars)) \o EscapeChars(Tail(chars))

JsonString(chars) == <<34>> \o EscapeChars(chars) \o <<34>>

RECURSIVE IntChars(_)
IntChars(n) ==
    IF n < 0 THEN <<45>> \o IntChars(-n)
    ELSE IF n < 10 THEN <<DIGITS[n + 1]>>
    ELSE IntChars(n \div 10) \o <<DIGITS[(n % 10) + 1]>>

RECURSIVE json_dumps(_, _)
RECURSIVE JoinItems(_, _, _)
RECURSIVE JoinPairs(_, _, _)
\* items i.. of a list, each on its own line at the given depth
JoinItems(items, i, depth) ==
    IF i > Len(items) THEN <<>>
    ELSE Spaces(2 * depth) \o json_dumps(items[i], depth)
           \o (IF i < Len(items) THEN <<44>> ELSE <<>>) \o <<10>>    \* ",", "\n"
           \o JoinItems(items, i + 1, depth)

\* pairs i.. of a dict, each on its own line at the given depth
JoinPairs(pairs, i, depth) ==
    IF i > Len(pairs) THEN <<>>
    ELSE Spaces(2 * depth) \o JsonString(pairs[i][1]) \o <<58, 32>>    \* ": "
           \o json_dumps(pairs[i][2], depth)
           \o (IF i < Len(pairs) THEN <<44>> ELSE <<>>) \o <<10>>    \* ",", "\n"
           \o JoinPairs(pairs, i + 1, depth)

\* the text of value v when it is written at nesting depth `depth`
json_dumps(v, depth) ==
    CASE v.type = "str" -> JsonString(v.chars)
      [] v.type = "NoneType" -> <<110, 117, 108, 108>>    \* "null"
      [] v.type = "int" -> IntChars(v.n)
      [] v.type = "list" ->
            IF v.items = <<>> THEN <<91, 93>>    \* "[]"
            ELSE <<91, 10>> \o JoinItems(v.items, 1, depth + 1)    \* "[\n"
                   \o Spaces(2 * depth) \o <<93>>    \* "]"
      [] OTHER ->
            IF v.pairs = <<>> THEN <<123, 125>>    \* "{}"
            ELSE <<123, 10>> \o JoinPairs(v.pairs, 1, depth + 1)    \* "{\n"
                   \o Spaces(2 * depth) \o <<125>>    \* "}"

(***************************************************************************)
(* call_bedrock_model                                                      *)
(***************************************************************************)
WARNING_NOT_CONFIGURED ==
    \* "<U+26A0><U+FE0F> Bedrock runtime client not available or no model selected. Please
    \* configure AWS properly."
    <<\h26A0, \hFE0F, 32, 66, 101, 100, 114, 111, 99, 107, 32, 114, 117, 110, 116, 105, 109,
            101, 32, 99, 108, 105, 101, 110, 116, 32, 110, 111, 116, 32, 97, 118, 97, 105,
            108, 97, 98, 108, 101, 32, 111, 114, 32, 110, 111, 32, 109, 111, 100, 101, 108,
            32, 115, 101, 108, 101, 99, 116, 101, 100, 46, 32, 80, 108, 101, 97, 115, 101,
            32, 99, 111, 110, 102, 105, 103, 117, 114, 101, 32, 65, 87, 83, 32, 112, 114,
            111, 112, 101, 114, 108, 121, 46>>

ERROR_PREFIX ==
    \* "Error calling model: "
    <<69, 114, 114, 111, 114, 32, 99, 97, 108, 108, 105, 110, 103, 32, 109, 111, 100, 101,
            108, 58, 32>>

ERROR_TIPS ==
    \* "\n\nTroubleshooting tips:\n1. Check if you have access to the selected model\n2.
    \* Verify your AWS credentials have proper permissions\n3. Make sure Bedrock is
    \* available in your region"
    <<10, 10, 84, 114, 111, 117, 98, 108, 101, 115, 104, 111, 111, 116, 105, 110, 103, 32,
            116, 105, 112, 115, 58, 10, 49, 46, 32, 67, 104, 101, 99, 107, 32, 105, 102, 32,
            121, 111, 117, 32, 104, 97, 118, 101, 32, 97, 99, 99, 101, 115, 115, 32, 116,
            111, 32, 116, 104, 101, 32, 115, 101, 108, 101, 99, 116, 101, 100, 32, 109, 111,
            100, 101, 108, 10, 50, 46, 32, 86, 101, 114, 105, 102, 121, 32, 121, 111, 117,
            114, 32, 65, 87, 83, 32, 99, 114, 101, 100, 101, 110, 116, 105, 97, 108, 115, 32,
            104, 97, 118, 101, 32, 112, 114, 111, 112, 101, 114, 32, 112, 101, 114, 109, 105,
            115, 115, 105, 111, 110, 115, 10, 51, 46, 32, 77, 97, 107, 101, 32, 115, 117,
            114, 101, 32, 66, 101, 100, 114, 111, 99, 107, 32, 105, 115, 32, 97, 118, 97,
            105, 108, 97, 98, 108, 101, 32, 105, 110, 32, 121, 111, 117, 114, 32, 114, 101,
            103, 105, 111, 110>>

NO_CONTENT_RETURNED ==
    \* "No content returned"
    <<78, 111, 32, 99, 111, 110, 116, 101, 110, 116, 32, 114, 101, 116, 117, 114, 110, 101,
            100>>

FORMAT_UNKNOWN_PREFIX ==
    \* "Response received but format unknown: "
    <<82, 101, 115, 112, 111, 110, 115, 101, 32, 114, 101, 99, 101, 105, 118, 101, 100, 32,
            98, 117, 116, 32, 102, 111, 114, 109, 97, 116, 32, 117, 110, 107, 110, 111, 119,
            110, 58, 32>>

CLAUDE ==
    <<99, 108, 97, 117, 100, 101>>    \* "claude"

TITAN ==
    <<116, 105, 116, 97, 110>>    \* "titan"

LLAMA ==
    <<108, 108, 97, 109, 97>>    \* "llama"

K_content ==
    <<99, 111, 110, 116, 101, 110, 116>>    \* "content"

K_text ==
    <<116, 101, 120, 116>>    \* "text"

K_results ==
    <<114, 101, 115, 117, 108, 116, 115>>    \* "results"

K_outputText ==
    <<111, 117, 116, 112, 117, 116, 84, 101, 120, 116>>    \* "outputText"

K_generated_text ==
    <<103, 101, 110, 101, 114, 97, 116, 101, 100, 95, 116, 101, 120, 116>>    \* "generated_text"

K_completion ==
    <<99, 111, 109, 112, 108, 101, 116, 105, 111, 110>>    \* "completion"

K_generation ==
    <<103, 101, 110, 101, 114, 97, 116, 105, 111, 110>>    \* "generation"

\* variant: the guard tests the model id against None only
not_configured_none_only(runtime, model_id) == ~runtime \/ model_id = PyNone

\* line 185: the guard in front of the try block
not_configured(runtime, model_id) == ~runtime \/ ~Truthy(model_id)

\* the family tests on model_id.lower(), in the order the code makes them
is_claude(model_id) == Contains(lower(model_id.chars), CLAUDE)

is_titan(model_id) == Contains(lower(model_id.chars), TITAN)

is_llama(model_id) == Contains(lower(model_id.chars), LLAMA)

\* lines 190-225: the request body (the dict handed to json.dumps)
request_body(prompt, model_id) ==
    IF is_claude(model_id)
    THEN [anthropic_version |-> "bedrock-2023-05-31",
          max_tokens |-> 2000,
          messages |-> <<[role |-> "user", content |-> prompt]>>]
    ELSE IF is_titan(model_id)
    THEN [inputText |-> prompt,
          textGenerationConfig |->
              [maxTokenCount |-> 2000, temperature |-> "0.7", topP |-> "0.9"]]
    ELSE IF is_llama(model_id)
    THEN [prompt |-> prompt, max_gen_len |-> 2000, temperature |-> "0.7", top_p |-> "0.9"]
    ELSE [prompt |-> prompt, max_tokens |-> 2000]

\* line 234: response.get('body').read().decode('utf-8') handed to json.loads
read_body(response) ==
    CASE response.body = "missing" -> Raises("AttributeError", MSG_NO_READ)
      [] response.body = "invalid" -> Raises("JSONDecodeError", MSG_NOT_JSON)
      [] OTHER -> Returns(response.value)

\* body.get(list_key, [{}])[0].get(text_key, "No content returned")
first_item_text(response_body, list_key, text_key) ==
    LET c == py_get(response_body, list_key, PyList(<<PyDict(<<>>)>>))
    IN  IF c.raised THEN c
        ELSE LET f == py_first(c.value)
             IN  IF f.raised THEN f
                 ELSE py_get(f.value, text_key, PyStr(NO_CONTENT_RETURNED))

\* variant: completion is looked up before generated_text
generic_lookup_completion_first(response_body) ==
    LET h == py_in(K_completion, response_body)
    IN  IF h.raised THEN h
        ELSE IF h.value THEN py_item(response_body, K_completion)
        ELSE LET g == py_in(K_generated_text, response_body)
             IN  IF g.raised THEN g
                 ELSE IF g.value THEN py_item(response_body, K_generated_text)
                 ELSE Returns(PyStr(FORMAT_UNKNOWN_PREFIX \o json_dumps(response_body, 0)))

\* lines 243-251: the lookup used for every model that is neither claude nor titan
generic_lookup(response_body) ==
    LET g == py_in(K_generated_text, response_body)
    IN  IF g.raised THEN g
        ELSE IF g.value THEN py_item(response_body, K_generated_text)
        ELSE LET h == py_in(K_completion, response_body)
             IN  IF h.raised THEN h
                 ELSE IF h.value THEN py_item(response_body, K_completion)
                 ELSE Returns(PyStr(FORMAT_UNKNOWN_PREFIX \o json_dumps(response_body, 0)))

\* lines 237-243: the branch of the response extraction a model id takes
extraction_branch(model_id) ==
    IF is_claude(model_id) THEN "claude"
    ELSE IF is_titan(model_id) THEN "titan"
    ELSE "generic"

\* lines 236-251: the text taken from the parsed response
extract_response(model_id, response_body) ==
    IF is_claude(model_id) THEN first_item_text(response_body, K_content, K_text)
    ELSE IF is_titan(model_id) THEN first_item_text(response_body, K_results, K_outputText)
    ELSE generic_lookup(response_body)

\* line 254: the string the except clause returns
error_message(exc) == PyStr(ERROR_PREFIX \o exc.msg \o ERROR_TIPS)

\* the whole function, given what invoke_model does when it is called
call_bedrock_model(prompt, model_id, runtime, invoke_outcome) ==
    IF not_configured(runtime, model_id) THEN PyStr(WARNING_NOT_CONFIGURED)
    ELSE IF invoke_outcome.raised THEN error_message(invoke_outcome.exc)
    ELSE LET b == read_body(invoke_outcome.value)
         IN  IF b.raised THEN error_message(b.exc)
             ELSE LET x == extract_response(model_id, b.value)
                  IN  IF x.raised THEN error_message(x.exc) ELSE x.value

(***************************************************************************)
(* Response texts the splitters are run on                                 *)
(***************************************************************************)
\* the free text of the i-th segment; each has its own letters and white space
Content(i) ==
    CASE i = 1 -> <<32, 97, \h00A0>>    \* " a<U+00A0>"
      [] i = 2 -> <<10, 98, 32, 99, 11>>    \* "\nb c<U+000B>"
      [] i = 3 -> <<100>>    \* "d"
      [] OTHER -> <<9, 101, \h2003>>    \* "\te<U+2003>"

MarkersOf(pairs) == {pairs[i][1] : i \in 1..Len(pairs)}

\* a segment: an optional marker followed by optional free text, not both empty
SegmentsAt(pairs, i) ==
    {m \o c : m \in MarkersOf(pairs) \cup {<<>>}, c \in {<<>>, Content(i)}} \ {<<>>}

RECURSIVE TextsOfLength(_, _)
TextsOfLength(pairs, n) ==
    IF n = 0 THEN {<<>>}
    ELSE {t \o s : t \in TextsOfLength(pairs, n - 1), s \in SegmentsAt(pairs, n)}

TextsFor(pairs) == UNION {TextsOfLength(pairs, n) : n \in 0..MaxSegments}

CorrectionTexts == TextsFor(sections_to_extract)

EvaluationTexts == TextsFor(section_markers)

\* orders of the declared list the splitter is re-run with: the rotations of the
\* declared order and of its reverse
Rotate(s, r) == [i \in 1..Len(s) |-> s[((i + r - 1) % Len(s)) + 1]]

Reverse(s) == [i \in 1..Len(s) |-> s[Len(s) + 1 - i]]

DeclaredOrders ==
    {Rotate(sections_to_extract, r) : r \in 0..(Len(sections_to_extract) - 1)}
        \cup {Rotate(Reverse(sections_to_extract), r) : r \in 0..(Len(sections_to_extract) - 1)}

\* the declared list without its k-th pair
WithoutPair(pairs, k) == SubSeq(pairs, 1, k - 1) \o SubSeq(pairs, k + 1, Len(pairs))

ID_TITAN_EXPRESS ==
    \* "amazon.titan-text-express-v1"
    <<97, 109, 97, 122, 111, 110, 46, 116, 105, 116, 97, 110, 45, 116, 101, 120, 116, 45,
            101, 120, 112, 114, 101, 115, 115, 45, 118, 49>>

ID_CLAUDE_HAIKU ==
    \* "anthropic.claude-3-haiku-20240307-v1"
    <<97, 110, 116, 104, 114, 111, 112, 105, 99, 46, 99, 108, 97, 117, 100, 101, 45, 51, 45,
            104, 97, 105, 107, 117, 45, 50, 48, 50, 52, 48, 51, 48, 55, 45, 118, 49>>

ID_J2_ULTRA ==
    \* "ai21.j2-ultra-v1"
    <<97, 105, 50, 49, 46, 106, 50, 45, 117, 108, 116, 114, 97, 45, 118, 49>>

ID_LLAMA2 ==
    \* "meta.llama2-13b-chat-v1"
    <<109, 101, 116, 97, 46, 108, 108, 97, 109, 97, 50, 45, 49, 51, 98, 45, 99, 104, 97, 116,
            45, 118, 49>>

ID_CLAUDE_UPPER ==
    \* "Anthropic.CLAUDE-v2"
    <<65, 110, 116, 104, 114, 111, 112, 105, 99, 46, 67, 76, 65, 85, 68, 69, 45, 118, 50>>

ID_LLAMA_ON_TITAN ==
    \* "my.llama-on-Titan"
    <<109, 121, 46, 108, 108, 97, 109, 97, 45, 111, 110, 45, 84, 105, 116, 97, 110>>

ID_LLAMA_CLAUDE ==
    \* "llama.claude-mix"
    <<108, 108, 97, 109, 97, 46, 99, 108, 97, 117, 100, 101, 45, 109, 105, 120>>

ID_TITAN_CLAUDE ==
    <<116, 105, 116, 97, 110, 46, 67, 108, 97, 117, 100, 101>>    \* "titan.Claude"

ID_TITAN_DOTTED ==
    <<97, 109, 97, 122, 111, 110, 46, 84, \h0130, 84, 65, 78>>    \* "amazon.T<U+0130>TAN"

(***************************************************************************)
(* Inputs of call_bedrock_model                                            *)
(***************************************************************************)
\* the model ids a call is made with: none, empty, the ids of the fallback list
\* (one per family), an upper-case spelling, three ids naming two families and one
\* spelled with a capital dotted I
ModelIds ==
    {PyNone, PyStr(<<>>), PyStr(ID_TITAN_EXPRESS), PyStr(ID_CLAUDE_HAIKU),
     PyStr(ID_J2_ULTRA), PyStr(ID_LLAMA2), PyStr(ID_CLAUDE_UPPER),
     PyStr(ID_LLAMA_ON_TITAN), PyStr(ID_LLAMA_CLAUDE), PyStr(ID_TITAN_CLAUDE),
     PyStr(ID_TITAN_DOTTED)}

SamplePrompt == PyStr(<<112>>)    \* "p"

SampleText == PyStr(<<111, 107>>)    \* "ok"

Pair(key, value) == <<key, value>>

\* the JSON documents invoke_model answers with
ResponseBodies ==
    {PyDict(<<Pair(K_content, PyList(<<PyDict(<<Pair(K_text, SampleText)>>)>>))>>),
     PyDict(<<Pair(K_content, PyList(<<>>))>>),
     PyDict(<<Pair(K_content, PyList(<<PyDict(<<>>)>>))>>),
     PyDict(<<Pair(K_content, PyList(<<PyDict(<<Pair(K_text, PyNone)>>)>>))>>),
     PyDict(<<Pair(K_content, SampleText)>>),
     PyDict(<<Pair(K_results, PyList(<<PyDict(<<Pair(K_outputText, SampleText)>>)>>))>>),
     PyDict(<<Pair(K_results, PyList(<<>>))>>),
     PyDict(<<Pair(K_generated_text, SampleText)>>),
     PyDict(<<Pair(K_completion, SampleText)>>),
     PyDict(<<Pair(K_completion, SampleText), Pair(K_generated_text, PyStr(<<103>>))>>),    \* "g"
     \* "<U+00E9><U+0008>"
     PyDict(<<Pair(K_generation, PyList(<<PyStr(<<\h00E9, 8>>), PyInt(-5)>>))>>),
     PyDict(<<>>),
     PyList(<<>>),
     PyList(<<PyStr(K_generated_text)>>),
     SampleText,
     PyInt(7),
     PyNone}

\* what invoke_model hands back: no body, a body that is not JSON, or a JSON document
Responses ==
    {[body |-> "missing"], [body |-> "invalid"]}
        \cup {[body |-> "json", value |-> v] : v \in ResponseBodies}

\* invoke_model raises or returns a response
InvokeOutcomes ==
    {Raises("ClientError", MSG_ACCESS_DENIED)} \cup {Returns(r) : r \in Responses}

Unset == [type |-> "unset"]

\* the frame of one call_bedrock_model invocation at its first line
NewCall(prompt, model_id, runtime, requests) ==
    [pc |-> "entry", prompt |-> prompt, model_id |-> model_id, runtime |-> runtime,
     body |-> Unset, response |-> Unset, response_body |-> Unset, exc |-> Unset,
     result |-> Unset, invokes |-> 0, requests |-> requests, extraction |-> "none"]

\* variant: the exception leaves call_bedrock_model
handle_exception_raises(c) == [c EXCEPT !.pc = "raised"]

\* variant: the request is sent again after an exception
handle_exception_retries(c) == [c EXCEPT !.pc = "invoke", !.exc = Unset]

\* lines 253-254: the except clause catches the exception and returns the message
handle_exception(c) ==
    [c EXCEPT !.pc = "returned", !.result = error_message(c.exc)]

(***************************************************************************)
(* The pages: prompts, handlers and the session state                      *)
(***************************************************************************)
\* the nine sections Analyze Text and Transform Text Tone ask for, in order
section_names ==
    <<"hypothesis", "main_bullet_points", "most_important_data_points", "summary",
      "abstract", "introduction", "body_text", "conclusion", "appendix">>

\* the prompts, as the template that is filled and the values filled in
analyze_section_prompt(section, user_text) ==
    [fn |-> "analyze_user_text_enhanced", section |-> section, text |-> user_text]

corrections_prompt(user_text) ==
    [fn |-> "analyze_user_text_enhanced", section |-> "corrections", text |-> user_text]

change_text_tone_section_enhanced(tone_text, settings, section) ==
    [fn |-> "change_text_tone_section_enhanced", section |-> section, text |-> tone_text,
     settings |-> settings]

transform_text(tone_text, settings) ==
    [fn |-> "transform_text", text |-> tone_text, settings |-> settings]

get_tone_corrections(tone_text) == [fn |-> "get_tone_corrections", text |-> tone_text]

evaluate_text_comprehensive_1(evaluation_text) ==
    [fn |-> "evaluate_text_comprehensive", definition |-> 1, text |-> evaluation_text]

evaluate_text_comprehensive_2(evaluation_text) ==
    [fn |-> "evaluate_text_comprehensive", definition |-> 2, text |-> evaluation_text]

generate_latex_code(latex_text, document_type) ==
    [fn |-> "generate_latex_code", text |-> latex_text, document_type |-> document_type]

\* the characters of an option of the reference type selector
reference_type_chars(reference_type) ==
    CASE reference_type = "Journal Article" ->
            \* "Journal Article"
            <<74, 111, 117, 114, 110, 97, 108, 32, 65, 114, 116, 105, 99, 108, 101>>
      [] reference_type = "Book" ->
            <<66, 111, 111, 107>>    \* "Book"
      [] reference_type = "Website" ->
            <<87, 101, 98, 115, 105, 116, 101>>    \* "Website"
      [] reference_type = "Conference Paper" ->
            \* "Conference Paper"
            <<67, 111, 110, 102, 101, 114, 101, 110, 99, 101, 32, 80, 97, 112, 101, 114>>
      [] reference_type = "Thesis/Dissertation" ->
            \* "Thesis/Dissertation"
            <<84, 104, 101, 115, 105, 115, 47, 68, 105, 115, 115, 101, 114, 116, 97, 116,
                    105, 111, 110>>
      [] reference_type = "Report" ->
            <<82, 101, 112, 111, 114, 116>>    \* "Report"

\* line 802: the fields that get a line in the prompt, those whose value is not blank
field_info(fields) == SelectSeq(fields, LAMBDA field : strip(field[2]) # <<>>)

\* the prompt of generate_reference: the style, the reference type in lower case and
\* the lines of the fields that are not blank
generate_reference(style, ref_type, fields) ==
    [fn |-> "generate_reference", style |-> style,
     ref_type |-> lower(reference_type_chars(ref_type)),
     field_info |-> field_info(fields)]

generate_hypothesis_options(topic) == [fn |-> "generate_hypothesis_options", text |-> topic]

get_hypothesis_statistics(hypothesis) ==
    [fn |-> "get_hypothesis_statistics", text |-> hypothesis]

get_hypothesis_references(hypothesis) ==
    [fn |-> "get_hypothesis_references", text |-> hypothesis]

get_hypothesis_outline(hypothesis) == [fn |-> "get_hypothesis_outline", text |-> hypothesis]

\* variant: the corrections are asked for before the nine sections
analyze_prompts_corrections_first(user_text) ==
    <<corrections_prompt(user_text)>>
        \o [i \in 1..Len(section_names) |-> analyze_section_prompt(section_names[i], user_text)]

\* the nine section prompts of analyze_user_text_enhanced followed by the corrections prompt
analyze_prompts(user_text) ==
    [i \in 1..Len(section_names) |-> analyze_section_prompt(section_names[i], user_text)]
        \o <<corrections_prompt(user_text)>>

\* Transform Text Tone: nine section prompts, then get_tone_corrections
tone_prompts(tone_text, settings) ==
    [i \in 1..Len(section_names) |->
        change_text_tone_section_enhanced(tone_text, settings, section_names[i])]
        \o <<get_tone_corrections(tone_text)>>

\* variant: the outline is asked for a second time
hypothesis_prompts_repeated(hypothesis) ==
    <<get_hypothesis_statistics(hypothesis), get_hypothesis_references(hypothesis),
      get_hypothesis_outline(hypothesis), get_hypothesis_outline(hypothesis)>>

\* Get Statistics, References & Outline: three prompts
hypothesis_prompts(hypothesis) ==
    <<get_hypothesis_statistics(hypothesis), get_hypothesis_references(hypothesis),
      get_hypothesis_outline(hypothesis)>>

\* variant: the fields of every reference type are collected
reference_fields_all_types(reference_type, in) ==
    <<Pair("Author(s)", in.author), Pair("Title", in.title), Pair("Year", in.year),
      Pair("DOI", in.doi), Pair("Notes", in.notes),
      Pair("Journal/Conference", in.extra[1]), Pair("Volume", in.extra[2]),
      Pair("Issue", in.extra[3]), Pair("Pages", in.extra[4]),
      Pair("Publisher", in.extra[1]), Pair("Place Published", in.extra[2]),
      Pair("Edition", in.extra[3])>>

\* reference fields: the five common labels and those of the selected type
reference_fields(reference_type, in) ==
    LET common == <<Pair("Author(s)", in.author), Pair("Title", in.title),
                    Pair("Year", in.year), Pair("DOI", in.doi), Pair("Notes", in.notes)>>
    IN  common \o
        (CASE reference_type \in {"Journal Article", "Conference Paper"} ->
                <<Pair("Journal/Conference", in.extra[1]), Pair("Volume", in.extra[2]),
                  Pair("Issue", in.extra[3]), Pair("Pages", in.extra[4])>>
           [] reference_type = "Book" ->
                <<Pair("Publisher", in.extra[1]), Pair("Place Published", in.extra[2]),
                  Pair("Edition", in.extra[3])>>
           [] reference_type = "Website" ->
                <<Pair("Website Name", in.extra[1]), Pair("URL", in.extra[2]),
                  Pair("Date Accessed", in.extra[3])>>
           [] reference_type = "Thesis/Dissertation" ->
                <<Pair("Institution", in.extra[1]), Pair("Degree Type", in.extra[2]),
                  Pair("Department", in.extra[3])>>
           [] reference_type = "Report" ->
                <<Pair("Organization", in.extra[1]), Pair("Report Number", in.extra[2]),
                  Pair("Place Published", in.extra[3])>>
           [] OTHER -> <<>>)

\* x.strip() is empty
Blank(chars) == strip(chars) = <<>>

\* variant: Regenerate works with the selectors' values
regenerate_settings_selected(state, selected) == selected

\* the settings Regenerate works with: the stored ones, else the selectors' values
regenerate_settings(state, selected) ==
    IF "current_settings" \in DOMAIN state THEN state["current_settings"] ELSE selected

\* variant: the handlers test the model only, not their text
passes_validation_model_only(button, in, model_id) == Truthy(model_id)

\* does the press get past the handler's checks (the branch that calls the model)
passes_validation(button, in, model_id) ==
    CASE button = "generate_reference" ->
            ~Blank(in.author) /\ ~Blank(in.title) /\ Truthy(model_id)
      [] button = "get_stats_refs_outline" -> ~Blank(in.text)
      [] OTHER -> ~Blank(in.text) /\ Truthy(model_id)

\* the prompts a handler sends, in order
handler_prompts(button, in, state) ==
    CASE button = "analyze_text" -> analyze_prompts(in.text)
      [] button = "transform_text_button" -> <<transform_text(in.text, in.settings)>>
      [] button = "evaluate_text_button" -> <<evaluate_text_comprehensive_1(in.text)>>
      [] button = "evaluate_text" -> <<evaluate_text_comprehensive_2(in.text)>>
      [] button = "generate_latex" -> <<generate_latex_code(in.text, in.document_type)>>
      [] button = "generate_reference" ->
            <<generate_reference(in.style, in.reference_type,
                                 reference_fields(in.reference_type, in))>>
      [] button = "change_tone" -> tone_prompts(in.text, in.settings)
      [] button = "regen" ->
            <<change_text_tone_section_enhanced(
                  in.text, regenerate_settings(state, in.settings), in.section)>>
      [] button = "generate_hypotheses" -> <<generate_hypothesis_options(in.text)>>
      [] OTHER -> hypothesis_prompts(in.text)

\* a mapping of strings as the session keeps it
StrDict(d) == [k \in DOMAIN d |-> PyStr(d[k])]

\* the nine results under their section names
SectionResults(results) ==
    [k \in {section_names[i] : i \in 1..Len(section_names)} |->
        results[CHOOSE i \in 1..Len(section_names) : section_names[i] = k]]

\* the return value of analyze_user_text_enhanced
analysis_results(results) ==
    [k \in DOMAIN SectionResults(results) \cup {"corrections"} |->
        IF k = "corrections"
        THEN StrDict(correction_sections(results[Len(section_names) + 1].chars))
        ELSE SectionResults(results)[k]]

\* tone_results as Transform Text Tone builds it
tone_results(results) ==
    [k \in DOMAIN SectionResults(results) \cup {"corrections"} |->
        IF k = "corrections" THEN results[Len(section_names) + 1]
        ELSE SectionResults(results)[k]]

\* variant: only the first assignment of a handler is made
StoreAll_first_only(state, writes) ==
    IF writes = <<>> THEN state ELSE DictSet(state, writes[1][1], writes[1][2])

\* variant: the session keeps nothing but what the handler writes
StoreAll_fresh(state, writes) ==
    [k \in {writes[i][1] : i \in 1..Len(writes)} |->
        writes[CHOOSE i \in 1..Len(writes) : writes[i][1] = k][2]]

RECURSIVE StoreAll_updating(_, _)
\* variant: the stored evaluation mapping is updated key by key
StoreAll_updating(state, writes) ==
    IF writes = <<>> THEN state
    ELSE LET key == writes[1][1]
             new == writes[1][2]
             kept == IF key = "evaluation_results" /\ key \in DOMAIN state
                     THEN [k \in DOMAIN state[key] \cup DOMAIN new |->
                              IF k \in DOMAIN new THEN new[k] ELSE state[key][k]]
                     ELSE new
         IN  StoreAll_updating(DictSet(state, key, kept), Tail(writes))

RECURSIVE StoreAll(_, _)
\* st.session_state[key] = value for every (key, value) of writes, in order
StoreAll(state, writes) ==
    IF writes = <<>> THEN state
    ELSE StoreAll(DictSet(state, writes[1][1], writes[1][2]), Tail(writes))

\* the assignments to st.session_state a handler makes once its calls have returned
handler_writes(button, in, state, results) ==
    CASE button = "analyze_text" -> <<Pair("analysis_results", analysis_results(results))>>
      [] button = "transform_text_button" -> <<Pair("transformed_text", results[1])>>
      [] button = "evaluate_text_button" ->
            <<Pair("evaluation_results", StrDict(parse_evaluation_results_1(results[1].chars))),
              Pair("raw_evaluation", results[1])>>
      [] button = "evaluate_text" ->
            <<Pair("evaluation_results", StrDict(parse_evaluation_results_2(results[1].chars))),
              Pair("raw_evaluation", results[1])>>
      [] button = "generate_latex" -> <<Pair("latex_code", results[1])>>
      [] button = "generate_reference" -> <<Pair("formatted_reference", results[1])>>
      [] button = "change_tone" ->
            <<Pair("tone_results", tone_results(results)),
              Pair("current_tone", in.settings.tone),
              Pair("current_settings", in.settings)>>
      [] button = "regen" ->
            <<Pair("tone_results",
                   [state["tone_results"] EXCEPT ![in.section] = results[1]])>>
      [] button = "generate_hypotheses" ->
            <<Pair("hypotheses", results[1]), Pair("selected_hypothesis", PyNone)>>
      [] OTHER ->
            <<Pair("hypothesis_statistics", results[1]),
              Pair("hypothesis_references", results[2]),
              Pair("hypothesis_outline", results[3])>>

(***************************************************************************)
(* Inputs of the pages                                                     *)
(***************************************************************************)
\* what a text box holds: nothing, white space only, or some text
InputTexts == {<<>>, <<32, \h3000>>, <<116>>}    \* " <U+3000>", "t"

\* two complete choices of the five selectors of Change Text Tone
SettingsChoices ==
    {[tone |-> "Academic", text_type |-> "Report", technical_level |-> "Moderate",
      formality_level |-> "High", statistics_level |-> "Low"],
     [tone |-> "Simple", text_type |-> "Summary", technical_level |-> "Very Low",
      formality_level |-> "Low", statistics_level |-> "Very High"]}

ReferenceTypes ==
    {"Journal Article", "Book", "Website", "Conference Paper", "Thesis/Dissertation",
     "Report"}

\* author, title and type of a reference: every type with both given, one type without
\* an author, one with a blank title
ReferenceForms ==
    {<<<<65>>, <<84>>, ty>> : ty \in ReferenceTypes}    \* "A", "T"
        \cup {<<<<>>, <<84>>, "Journal Article">>,      \* "", "T"
              <<<<65>>, <<\h00A0>>, "Book">>}            \* "A", "<U+00A0>"

\* the sections whose Regenerate button is pressed: the first, one inside, the last
RegenerateSections == {"hypothesis", "abstract", "appendix"}

\* a text with a choice of the selectors; a box left blank goes with one choice only
SettingsInputs ==
    {in \in [text : InputTexts, settings : SettingsChoices] :
        Blank(in.text) => in.settings.tone = "Academic"}

\* the same with the section whose Regenerate button is pressed
RegenerateInputs ==
    {in \in [text : InputTexts, settings : SettingsChoices, section : RegenerateSections] :
        Blank(in.text) => (in.settings.tone = "Academic" /\ in.section = "hypothesis")}

\* a text with a document type
LatexInputs ==
    {in \in [text : InputTexts, document_type : {"Academic Paper", "Report"}] :
        Blank(in.text) => in.document_type = "Academic Paper"}

\* the answers of the model to the corrections prompt
SampleCorrections(v) ==
    CASE v = 1 ->
            SPELLING_CORRECTIONS \o Content(1) \o GRAMMAR_CORRECTIONS \o Content(2)
                \o COHERENCE_CORRECTIONS \o Content(3) \o STYLE_CORRECTIONS \o Content(1)
                \o ORDER_CORRECTIONS \o Content(2) \o PROPOSED_CORRECTION \o Content(3)
      [] v = 2 -> GRAMMAR_CORRECTIONS \o Content(3) \o SPELLING_CORRECTIONS \o Content(4)
      [] OTHER -> <<>>

\* the answers of the model to the evaluation prompts
SampleEvaluations(v) ==
    CASE v = 1 ->
            SPELLING_EVALUATION \o Content(1) \o GRAMMAR_EVALUATION \o Content(2)
                \o STYLE_EVALUATION \o Content(3) \o COHERENCE_EVALUATION \o Content(1)
                \o OVERALL_EVALUATION \o Content(2)
      [] v = 2 -> SPELLING_EVALUATION \o GRAMMAR_EVALUATION \o Content(1)
      [] OTHER -> <<110, 111>>    \* "no"

\* the position of a section in section_names, 0 for anything else
SectionIndex(s) ==
    IF \E i \in 1..Len(section_names) : section_names[i] = s
    THEN CHOOSE i \in 1..Len(section_names) : section_names[i] = s
    ELSE 0

\* the v-th answer of the model to a prompt: the two parsed prompts get marker texts,
\* every other prompt a short text that names the prompt and v
ReplyText(prompt, v) ==
    CASE prompt.fn = "analyze_user_text_enhanced" /\ prompt.section = "corrections" ->
            SampleCorrections(v)
      [] prompt.fn = "evaluate_text_comprehensive" -> SampleEvaluations(v)
      [] prompt.fn \in {"analyze_user_text_enhanced", "change_text_tone_section_enhanced"} ->
            \* "s<section>v<variant>"
            <<115, DIGITS[SectionIndex(prompt.section) + 1], 118, DIGITS[v + 1]>>
      \* "h1v<variant>"
      [] prompt.fn = "get_hypothesis_statistics" -> <<104, 49, 118, DIGITS[v + 1]>>
      \* "h2v<variant>"
      [] prompt.fn = "get_hypothesis_references" -> <<104, 50, 118, DIGITS[v + 1]>>
      \* "h3v<variant>"
      [] prompt.fn = "get_hypothesis_outline" -> <<104, 51, 118, DIGITS[v + 1]>>
      [] OTHER -> <<114, 118, DIGITS[v + 1]>>    \* "rv<variant>"

\* a well-formed answer of a claude model carrying the text
ClaudeResponse(chars) ==
    [body |-> "json",
     value |-> PyDict(<<Pair(K_content, PyList(<<PyDict(<<Pair(K_text, PyStr(chars))>>)>>))>>)]

\* the calls of a run of n calls on which invoke_model raises: none, all, the first only
FailurePlans(n) == {{}, 1..n, {1}}

\* what invoke_model does on the k-th call of a run
PageOutcome(prompt, v, failing, k) ==
    IF k \in failing THEN Raises("ClientError", MSG_ACCESS_DENIED)
    ELSE Returns(ClaudeResponse(ReplyText(prompt, v)))

IdleRun ==
    [pc |-> "idle", button |-> "none", input |-> [text |-> <<>>], valid |-> FALSE,
     prompts |-> <<>>, variant |-> 1, failing |-> {}]

(***************************************************************************)
(* setup_aws_clients: clients, model discovery and the model selector      *)
(***************************************************************************)
CHOOSE_A_MODEL ==
    <<67, 104, 111, 111, 115, 101, 32, 97, 32, 109, 111, 100, 101, 108>>    \* "Choose a model"

ID_CLAUDE_SONNET ==
    \* "anthropic.claude-3-sonnet-20240229-v1"
    <<97, 110, 116, 104, 114, 111, 112, 105, 99, 46, 99, 108, 97, 117, 100, 101, 45, 51, 45,
            115, 111, 110, 110, 101, 116, 45, 50, 48, 50, 52, 48, 50, 50, 57, 45, 118, 49>>

ID_CLAUDE_INSTANT ==
    \* "anthropic.claude-instant-v1"
    <<97, 110, 116, 104, 114, 111, 112, 105, 99, 46, 99, 108, 97, 117, 100, 101, 45, 105,
            110, 115, 116, 97, 110, 116, 45, 118, 49>>

K_modelSummaries ==
    <<109, 111, 100, 101, 108, 83, 117, 109, 109, 97, 114, 105, 101, 115>>    \* "modelSummaries"

K_modelId ==
    <<109, 111, 100, 101, 108, 73, 100>>    \* "modelId"

MSG_OBJECT_NOT_ITERABLE ==
    \* "' object is not iterable"
    <<39, 32, 111, 98, 106, 101, 99, 116, 32, 105, 115, 32, 110, 111, 116, 32, 105, 116, 101,
            114, 97, 98, 108, 101>>

ID_LISTED ==
    \* "cohere.command-text-v14"
    <<99, 111, 104, 101, 114, 101, 46, 99, 111, 109, 109, 97, 110, 100, 45, 116, 101, 120,
            116, 45, 118, 49, 52>>

DEFAULT_REGION ==
    <<117, 115, 45, 101, 97, 115, 116, 45, 49>>    \* "us-east-1"

DEFAULT_S3_BUCKET ==
    <<112, 114, 117, 101, 98, 97, 102, 105, 110, 97, 108, 49>>    \* "pruebafinal1"

\* the static list offered when discovery fails
common_models ==
    <<PyStr(CHOOSE_A_MODEL), PyStr(ID_TITAN_EXPRESS), PyStr(ID_CLAUDE_HAIKU),
      PyStr(ID_CLAUDE_SONNET), PyStr(ID_CLAUDE_INSTANT), PyStr(ID_J2_ULTRA),
      PyStr(ID_LLAMA2)>>

\* the values "for x in v" runs through
py_iter(v) ==
    CASE v.type = "list" -> Returns(v.items)
      [] v.type = "str" -> Returns([i \in 1..Len(v.chars) |-> PyStr(<<v.chars[i]>>)])
      [] v.type = "dict" -> Returns([i \in 1..Len(v.pairs) |-> PyStr(v.pairs[i][1])])
      [] OTHER -> Raises("TypeError", MSG_QUOTE \o TypeName(v) \o MSG_OBJECT_NOT_ITERABLE)

\* [model.get('modelId') for model in model_summaries]
RECURSIVE model_id_list(_, _, _)
model_id_list(summaries, i, acc) ==
    IF i > Len(summaries) THEN Returns(acc)
    ELSE LET g == py_get(summaries[i], K_modelId, PyNone)
         IN  IF g.raised THEN g ELSE model_id_list(summaries, i + 1, Append(acc, g.value))

\* lines 123-124: the ids named by the answer of list_foundation_models
model_names(response) ==
    LET s == py_get(response, K_modelSummaries, PyList(<<>>))
    IN  IF s.raised THEN s
        ELSE LET items == py_iter(s.value)
             IN  IF items.raised THEN items ELSE model_id_list(items.value, 1, <<>>)

\* the model id a selector gives: its chosen option unless that is "Choose a model"
chosen_model(options, choice) ==
    IF options[choice + 1] # PyStr(CHOOSE_A_MODEL) THEN options[choice + 1] ELSE PyNone

NoSelector(note) == [selector |-> <<>>, model_id |-> PyNone, note |-> note]

\* variant: a failed discovery leaves the page without a selector
discovery_fallback_none(choice) == NoSelector("none")

\* lines 139-154: the except branch offers the static list
discovery_fallback(choice) ==
    [selector |-> common_models, model_id |-> chosen_model(common_models, choice),
     note |-> "none"]

\* lines 118-154: the model selector and the model id it yields
select_model(runtime, management, listing, choice) ==
    IF ~(runtime /\ management) THEN NoSelector("none")
    ELSE IF listing.raised THEN discovery_fallback(choice)
    ELSE LET names == model_names(listing.value)
         IN  IF names.raised THEN discovery_fallback(choice)
             ELSE IF names.value # <<>>
             THEN LET options == <<PyStr(CHOOSE_A_MODEL)>> \o names.value
                  IN  [selector |-> options, model_id |-> chosen_model(options, choice),
                       note |-> "none"]
             ELSE NoSelector("no_models_found")

\* a sidebar button reads True in the script run its click has triggered
button_pressed(e, button) == e.clicked = button

\* lines 64-99: "Test S3 Connection" with the "Create Bucket" button drawn inside its
\* branch; the buttons drawn and the calls made on the s3 client
test_s3_connection(e) ==
    IF ~button_pressed(e, "test_s3")
    THEN [buttons |-> {"test_s3"}, calls |-> <<>>]
    ELSE IF e.buckets = "list_raises"
    THEN [buttons |-> {"test_s3"}, calls |-> <<"list_buckets">>]
    ELSE IF e.buckets = "listed"
    THEN [buttons |-> {"test_s3"}, calls |-> <<"list_buckets", "head_bucket">>]
    ELSE [buttons |-> {"test_s3", "create_bucket"},
          calls |-> IF button_pressed(e, "create_bucket")
                    THEN <<"list_buckets", "create_bucket">>
                    ELSE <<"list_buckets">>]

\* lines 102-115: "List Available Bedrock Models", drawn when the management client exists
list_models_button(e, management) ==
    IF ~management THEN [buttons |-> {}, calls |-> <<>>]
    ELSE [buttons |-> {"list_models"},
          calls |-> IF button_pressed(e, "list_models")
                    THEN <<"list_foundation_models">> ELSE <<>>]

\* setup_aws_clients without its two except clauses: the clients and the model
\* identifier are those of a run in which the session was created
setup_aws_clients_no_except(e) ==
    LET runtime == "bedrock-runtime" \in e.services
        management == "bedrock" \in e.services
        sel == select_model(runtime, management, e.listing, e.choice)
        test == test_s3_connection(e)
        list == list_models_button(e, management)
    IN  [session |-> TRUE, s3 |-> TRUE, bedrock_runtime |-> runtime,
         bedrock |-> management, model_id |-> sel.model_id,
         aws_region |-> e.aws_region, s3_bucket |-> e.s3_bucket,
         selector |-> sel.selector, note |-> sel.note,
         buttons |-> test.buttons \cup list.buttons,
         calls |-> test.calls \o list.calls]

\* the seven values setup_aws_clients returns (a client as TRUE, None as FALSE), with
\* the options of the model selector it drew, the note it wrote instead of one, the
\* sidebar buttons it drew and the calls its button branches made
setup_aws_clients(e) ==
    IF e.session # "ok"
    THEN [session |-> FALSE, s3 |-> FALSE, bedrock_runtime |-> FALSE, bedrock |-> FALSE,
          model_id |-> PyNone, aws_region |-> e.aws_region, s3_bucket |-> e.s3_bucket,
          selector |-> <<>>, note |-> e.session, buttons |-> {}, calls |-> <<>>]
    ELSE LET runtime == "bedrock-runtime" \in e.services
             management == "bedrock" \in e.services
             sel == select_model(runtime, management, e.listing, e.choice)
             test == test_s3_connection(e)
             list == list_models_button(e, management)
         IN  [session |-> TRUE, s3 |-> TRUE, bedrock_runtime |-> runtime,
              bedrock |-> management, model_id |-> sel.model_id,
              aws_region |-> e.aws_region, s3_bucket |-> e.s3_bucket,
              selector |-> sel.selector, note |-> sel.note,
              buttons |-> test.buttons \cup list.buttons,
              calls |-> test.calls \o list.calls]

\* what list_foundation_models does: it raises, or answers without modelSummaries,
\* with an empty list, with one or two models, with a summary lacking its modelId,
\* with no list at all, or with summaries that are not mappings
Summaries(items) == Returns(PyDict(<<Pair(K_modelSummaries, items)>>))

Summary(id) == PyDict(<<Pair(K_modelId, PyStr(id))>>)

Listings ==
    {Raises("ClientError", MSG_ACCESS_DENIED),
     Returns(PyDict(<<>>)),
     Summaries(PyList(<<>>)),
     Summaries(PyList(<<Summary(ID_LISTED)>>)),
     Summaries(PyList(<<Summary(ID_CLAUDE_HAIKU), Summary(ID_LISTED)>>)),
     Summaries(PyList(<<Summary(<<>>)>>)),
     Summaries(PyList(<<PyDict(<<>>)>>)),
     Summaries(PyNone),
     Summaries(PyList(<<PyStr(ID_LISTED)>>))}

\* the surroundings of one script run: whether the session and its clients can be
\* made, the services of the region, the answer of the listing, the option the user
\* has chosen in the selector that is drawn, the two text inputs, the sidebar button
\* whose click has triggered the run, and what list_buckets does when it is called
SidebarButtons == {"test_s3", "create_bucket", "list_models"}

SetupEnvs ==
    {e \in [session : {"ok", "no_credentials", "error"},
            services : SUBSET {"bedrock-runtime", "bedrock"},
            listing : Listings,
            choice : 0..(Len(common_models) - 1),
            aws_region : {DEFAULT_REGION},
            s3_bucket : {DEFAULT_S3_BUCKET},
            clicked : {"none"} \cup SidebarButtons,
            buckets : {"listed", "not_listed", "list_raises"}] :
        LET shown == Len(setup_aws_clients([e EXCEPT !.choice = 0]).selector)
        IN  /\ e.choice = 0 \/ e.choice < shown
            /\ e.clicked # "test_s3" => e.buckets = "not_listed"}

\* the surroundings of the script runs a page button starts: a model chosen from the
\* discovered list, the selector left on "Choose a model", a listed model with an empty
\* identifier chosen, and no credentials
PageEnvs ==
    LET base == [session |-> "ok", services |-> {"bedrock-runtime", "bedrock"},
                 listing |-> Summaries(PyList(<<Summary(ID_CLAUDE_HAIKU),
                                                Summary(ID_LISTED)>>)),
                 choice |-> 1, aws_region |-> DEFAULT_REGION,
                 s3_bucket |-> DEFAULT_S3_BUCKET, clicked |-> "none",
                 buckets |-> "not_listed"]
    IN  {base,
         [base EXCEPT !.choice = 0],
         [base EXCEPT !.listing = Summaries(PyList(<<Summary(<<>>)>>))],
         [base EXCEPT !.session = "no_credentials"]}

\* what setup_aws_clients returns in each of them
PageSetups == [e \in PageEnvs |-> setup_aws_clients(e)]

(***************************************************************************)
(* The keyed widgets of a script run and the page the run leaves           *)
(***************************************************************************)
\* a keyed widget: the line of its key argument and the key, as the parts of its f-string
Widget(line, key) == [line |-> line, key |-> key]

\* the line of the last write of a button's handler to st.session_state
handler_line(button) ==
    CASE button = "analyze_text" -> 368
      [] button = "transform_text_button" -> 535
      [] button = "evaluate_text_button" -> 626
      [] button = "generate_latex" -> 709
      [] button = "generate_reference" -> 864
      [] button = "change_tone" -> 1055
      [] button = "regen" -> 1110
      [] button = "generate_hypotheses" -> 1216
      [] button = "get_stats_refs_outline" -> 1245
      [] button = "evaluate_text" -> 1363
      [] OTHER -> 0

correction_types == <<"spelling", "grammar", "coherence", "style", "order", "proposed">>

evaluation_sections == <<"spelling", "grammar", "style", "coherence", "overall">>

\* one widget per name, all drawn by the same statement of a loop
loop_widgets(line, prefix, names) ==
    [i \in 1..Len(names) |-> Widget(line, <<prefix, names[i]>>)]

\* lines 371-421: the boxes of the analysis results
analysis_display(state) ==
    IF "analysis_results" \notin DOMAIN state THEN <<>>
    ELSE loop_widgets(395, "result_", section_names)
         \o (IF "corrections" \in DOMAIN state["analysis_results"]
             THEN loop_widgets(420, "correction_", correction_types) ELSE <<>>)

\* lines 629-658, and again 1366-1395: the boxes of the evaluation results
evaluation_display(state, line, line_empty) ==
    IF "evaluation_results" \notin DOMAIN state THEN <<>>
    ELSE [i \in 1..Len(evaluation_sections) |->
            IF evaluation_sections[i] \in DOMAIN state["evaluation_results"]
            THEN Widget(line, <<"eval_", evaluation_sections[i]>>)
            ELSE Widget(line_empty, <<"eval_", evaluation_sections[i], "_empty">>)]

\* lines 666-719, and again 1403-1456 (offset 737): the LaTeX Maker block
latex_block(state, offset) ==
    <<Widget(669 + offset, <<"latex_text_type">>),
      Widget(673 + offset, <<"latex_text_input">>),
      Widget(701 + offset, <<"generate_latex">>)>>
    \o (IF "latex_code" \in DOMAIN state
        THEN <<Widget(718 + offset, <<"latex_output">>)>> ELSE <<>>)

\* lines 747-876, and again 1484-1613 (offset 737): the Reference Maker block
reference_block(state, reference_type, offset) ==
    <<Widget(750 + offset, <<"reference_style">>),
      Widget(757 + offset, <<"reference_type">>),
      Widget(764 + offset, <<"ref_author">>),
      Widget(765 + offset, <<"ref_title">>),
      Widget(766 + offset, <<"ref_year">>)>>
    \o (CASE reference_type \in {"Journal Article", "Conference Paper"} ->
                <<Widget(769 + offset, <<"ref_journal">>),
                  Widget(770 + offset, <<"ref_volume">>),
                  Widget(771 + offset, <<"ref_issue">>),
                  Widget(772 + offset, <<"ref_pages">>)>>
          [] reference_type = "Book" ->
                <<Widget(775 + offset, <<"ref_publisher">>),
                  Widget(776 + offset, <<"ref_place">>),
                  Widget(777 + offset, <<"ref_edition">>)>>
          [] reference_type = "Website" ->
                <<Widget(780 + offset, <<"ref_website">>),
                  Widget(781 + offset, <<"ref_url">>),
                  Widget(782 + offset, <<"ref_access_date">>)>>
          [] reference_type = "Thesis/Dissertation" ->
                <<Widget(786 + offset, <<"ref_institution">>),
                  Widget(787 + offset, <<"ref_degree">>),
                  Widget(788 + offset, <<"ref_department">>)>>
          [] reference_type = "Report" ->
                <<Widget(791 + offset, <<"ref_organization">>),
                  Widget(792 + offset, <<"ref_report_num">>),
                  Widget(793 + offset, <<"ref_report_place">>)>>
          [] OTHER -> <<>>)
    \o <<Widget(796 + offset, <<"ref_doi">>),
         Widget(797 + offset, <<"ref_notes">>),
         Widget(824 + offset, <<"generate_reference">>)>>
    \o (IF "formatted_reference" \in DOMAIN state
        THEN <<Widget(873 + offset, <<"reference_output">>)>> ELSE <<>>)

\* lines 1064-1121: a text area and a Regenerate button per section, then the corrections
tone_display(state) ==
    IF "tone_results" \notin DOMAIN state THEN <<>>
    ELSE [i \in 1..(2 * Len(section_names)) |->
            IF i % 2 = 1
            THEN Widget(1092, <<"tone_result_", section_names[(i + 1) \div 2]>>)
            ELSE Widget(1096, <<"regen_", section_names[i \div 2]>>)]
         \o (IF "corrections" \in DOMAIN state["tone_results"]
             THEN <<Widget(1120, <<"tone_corrections_display">>)>> ELSE <<>>)

\* lines 1219-1278: the hypotheses, the input of the chosen one and the button (drawn
\* by the test of line 1219, above the handler of the button), then the three results
\* (drawn by the tests of lines 1248 and 1271, below the handler's writes)
hypothesis_display(state, results_state) ==
    IF "hypotheses" \notin DOMAIN state THEN <<>>
    ELSE <<Widget(1221, <<"hypotheses_display">>),
           Widget(1227, <<"selected_hypothesis_input">>),
           Widget(1231, <<"get_stats_refs_outline">>)>>
         \o (IF "hypothesis_statistics" \notin DOMAIN results_state THEN <<>>
             ELSE <<Widget(1258, <<"stats_display">>), Widget(1267, <<"refs_display">>)>>
                  \o (IF "hypothesis_outline" \in DOMAIN results_state
                      THEN <<Widget(1277, <<"outline_display">>)>> ELSE <<>>))

\* the keyed widgets the script draws from line 257 to its end, in script order, when
\* no run stops early: a statement above the handler of the pressed button sees the
\* session state of the start of the run, a statement below it the state it has written
script_widgets(before, after, button, reference_type) ==
    LET at(line) == IF line > handler_line(button) THEN after ELSE before
    IN  <<Widget(262, <<"user_text_input">>), Widget(360, <<"analyze_text">>)>>
        \o analysis_display(at(371))
        \o <<Widget(461, <<"tone_text_input">>), Widget(519, <<"transform_text_button">>)>>
        \o (IF "transformed_text" \in DOMAIN at(538)
            THEN <<Widget(544, <<"transform_result">>)>> ELSE <<>>)
        \o <<Widget(553, <<"text_evaluation_input">>),
             Widget(616, <<"evaluate_text_button">>)>>
        \o evaluation_display(at(630), 650, 657)
        \o latex_block(at(712), 0)
        \o reference_block(at(867), reference_type, 0)
        \o <<Widget(1030, <<"change_tone">>)>>
        \o tone_display(at(1064))
        \o <<Widget(1129, <<"topic_input">>), Widget(1207, <<"generate_hypotheses">>)>>
        \o hypothesis_display(at(1219), at(1248))
        \o <<Widget(1286, <<"evaluation_text_input">>), Widget(1353, <<"evaluate_text">>)>>
        \o evaluation_display(at(1367), 1387, 1394)
        \o latex_block(at(1449), 737)
        \o reference_block(at(1604), reference_type, 737)

\* the widgets from position i on register their keys one after the other; the result
\* is the position of the first widget whose key is registered already, 0 when none is
RECURSIVE register(_, _, _)
register(widgets, i, seen) ==
    IF i > Len(widgets) THEN 0
    ELSE IF widgets[i].key \in seen THEN i
    ELSE register(widgets, i + 1, seen \cup {widgets[i].key})

\* the position at which a script run that draws the widgets stops with
\* DuplicateWidgetID, 0 when every key is new
first_duplicate(widgets) == register(widgets, 1, {})

\* lines 1754-1757: the connection status in the sidebar footer
connection_status(runtime, model_id) ==
    IF runtime /\ Truthy(model_id) THEN "connected" ELSE "not_connected"

NoPage == [stopped_at |-> 0, duplicate |-> <<>>, footer |-> "none"]

\* line 1111: the run of a Regenerate press ends at st.rerun(), before the footer
RerunPage == [stopped_at |-> 1111, duplicate |-> <<>>, footer |-> "none"]

\* what the rest of the script leaves on the page: the line and key of the widget it
\* stopped at, or the footer it reached
render_page(before, after, button, reference_type, runtime, model_id) ==
    LET widgets == script_widgets(before, after, button, reference_type)
        d == first_duplicate(widgets)
    IN  IF d # 0
        THEN [stopped_at |-> widgets[d].line, duplicate |-> widgets[d].key,
              footer |-> "none"]
        ELSE [stopped_at |-> 0, duplicate |-> <<>>,
              footer |-> connection_status(runtime, model_id)]

\* the value of the reference type selector in a run: the one chosen for Generate
\* Reference; in every other run the selector keeps the value it held, which is its
\* first option in a new session
reference_type_of(button, in, held) ==
    IF button = "generate_reference" THEN in.reference_type ELSE held

(***************************************************************************)
(* State                                                                   *)
(***************************************************************************)
VARIABLES
    text,             \* the response text handed to a splitter
    sections,         \* the mapping the splitter returned
    parser,           \* which splitter produced sections ("none" before the run)
    cb,               \* the frame of the running call_bedrock_model invocation
    session_state,    \* st.session_state: key -> value
    MODEL_ID,         \* the global set from setup_aws_clients at the top of a run
    bedrock_runtime,  \* TRUE when the bedrock-runtime client exists
    run,              \* the script run in progress or last finished
    call_log,         \* the call_bedrock_model calls of that run, in order
    presses,          \* button presses so far
    env,              \* the surroundings setup_aws_clients runs in
    setup_result,     \* what setup_aws_clients returned (unset before it ran)
    page,             \* what the last finished script run left on the page
    selected_type     \* the value the reference type selector holds (key reference_type)

splitterVars == <<text, sections, parser>>

appVars ==
    <<session_state, MODEL_ID, bedrock_runtime, run, call_log, presses, page,
      selected_type>>

setupVars == <<env, setup_result>>

vars == <<text, sections, parser, cb, session_state, MODEL_ID, bedrock_runtime, run,
          call_log, presses, env, setup_result, page, selected_type>>

SplitterIdle ==
    /\ text = <<>>
    /\ sections = EmptyDict
    /\ parser = "none"

CallIdle == cb = Unset

SetupIdle ==
    /\ env = Unset
    /\ setup_result = Unset

AppIdle ==
    /\ session_state = EmptyDict
    /\ MODEL_ID = PyNone
    /\ bedrock_runtime = FALSE
    /\ run = IdleRun
    /\ call_log = <<>>
    /\ presses = 0
    /\ page = NoPage
    /\ selected_type = "Journal Article"

(***************************************************************************)
(* The corrections splitter on every generated text                        *)
(***************************************************************************)
InitCorrections ==
    /\ text \in CorrectionTexts
    /\ sections = EmptyDict
    /\ parser = "none"
    /\ CallIdle
    /\ AppIdle
    /\ SetupIdle

\* the splitter as analyze_user_text_enhanced runs it
SplitCorrections ==
    /\ parser = "none"
    /\ sections' = correction_sections(text)
    /\ parser' = "corrections"
    /\ UNCHANGED <<text, cb, appVars, setupVars>>

\* the same splitter with the declared list in another order
SplitReordered ==
    /\ parser = "none"
    /\ \E d \in DeclaredOrders :
          sections' = split_sections(text, d, NoCorrectionsNeeded)
    /\ parser' = "reordered"
    /\ UNCHANGED <<text, cb, appVars, setupVars>>

\* the same splitter with the pair of one absent marker removed from the list
SplitWithout ==
    /\ parser = "none"
    /\ \E k \in 1..Len(sections_to_extract) :
          /\ ~Contains(text, sections_to_extract[k][1])
          /\ sections' = split_sections(text, WithoutPair(sections_to_extract, k),
                                        NoCorrectionsNeeded)
    /\ parser' = "without"
    /\ UNCHANGED <<text, cb, appVars, setupVars>>

NextCorrections == SplitCorrections \/ SplitReordered \/ SplitWithout

SpecCorrections == InitCorrections /\ [][NextCorrections]_vars

(***************************************************************************)
(* parse_evaluation_results on every generated text                        *)
(***************************************************************************)
InitEvaluation ==
    /\ text \in EvaluationTexts
    /\ sections = EmptyDict
    /\ parser = "none"
    /\ CallIdle
    /\ AppIdle
    /\ SetupIdle

ParseEvaluation1 ==
    /\ parser = "none"
    /\ sections' = parse_evaluation_results_1(text)
    /\ parser' = "evaluation_1"
    /\ UNCHANGED <<text, cb, appVars, setupVars>>

ParseEvaluation2 ==
    /\ parser = "none"
    /\ sections' = parse_evaluation_results_2(text)
    /\ parser' = "evaluation_2"
    /\ UNCHANGED <<text, cb, appVars, setupVars>>

NextEvaluation == ParseEvaluation1 \/ ParseEvaluation2

SpecEvaluation == InitEvaluation /\ [][NextEvaluation]_vars

(***************************************************************************)
(* One call_bedrock_model invocation, statement by statement               *)
(***************************************************************************)
InitCall ==
    /\ \E m \in ModelIds, r \in BOOLEAN : cb = NewCall(SamplePrompt, m, r, 1)
    /\ SplitterIdle
    /\ AppIdle
    /\ SetupIdle

\* line 185
CheckConfigured ==
    /\ cb.pc = "entry"
    /\ cb' = IF not_configured(cb.runtime, cb.model_id)
             THEN [cb EXCEPT !.pc = "returned", !.result = PyStr(WARNING_NOT_CONFIGURED)]
             ELSE [cb EXCEPT !.pc = "build"]
    /\ UNCHANGED <<splitterVars, appVars, setupVars>>

\* lines 190-225
BuildBody ==
    /\ cb.pc = "build"
    /\ cb' = [cb EXCEPT !.pc = "invoke", !.body = request_body(cb.prompt, cb.model_id)]
    /\ UNCHANGED <<splitterVars, appVars, setupVars>>

\* lines 227-232
InvokeModel ==
    /\ cb.pc = "invoke"
    /\ cb.invokes < MaxInvokes
    /\ \E o \in InvokeOutcomes :
          cb' = IF o.raised
                THEN [cb EXCEPT !.pc = "except", !.invokes = @ + 1, !.exc = o.exc]
                ELSE [cb EXCEPT !.pc = "parse", !.invokes = @ + 1, !.response = o.value]
    /\ UNCHANGED <<splitterVars, appVars, setupVars>>

\* line 234
ParseBody ==
    /\ cb.pc = "parse"
    /\ LET b == read_body(cb.response)
       IN  cb' = IF b.raised
                 THEN [cb EXCEPT !.pc = "except", !.exc = b.exc]
                 ELSE [cb EXCEPT !.pc = "extract", !.response_body = b.value]
    /\ UNCHANGED <<splitterVars, appVars, setupVars>>

\* lines 236-251
ExtractText ==
    /\ cb.pc = "extract"
    /\ LET x == extract_response(cb.model_id, cb.response_body)
           branch == extraction_branch(cb.model_id)
       IN  cb' = IF x.raised
                 THEN [cb EXCEPT !.pc = "except", !.exc = x.exc, !.extraction = branch]
                 ELSE [cb EXCEPT !.pc = "returned", !.result = x.value,
                                 !.extraction = branch]
    /\ UNCHANGED <<splitterVars, appVars, setupVars>>

\* lines 253-254
CatchException ==
    /\ cb.pc = "except"
    /\ cb' = handle_exception(cb)
    /\ UNCHANGED <<splitterVars, appVars, setupVars>>

\* the caller makes its next request
NextRequest ==
    /\ cb.pc = "returned"
    /\ cb.requests < MaxRequests
    /\ \E m \in ModelIds, r \in BOOLEAN : cb' = NewCall(SamplePrompt, m, r, cb.requests + 1)
    /\ UNCHANGED <<splitterVars, appVars, setupVars>>

NextCall ==
    \/ CheckConfigured
    \/ BuildBody
    \/ InvokeModel
    \/ ParseBody
    \/ ExtractText
    \/ CatchException
    \/ NextRequest

SpecCall == InitCall /\ [][NextCall]_vars

(***************************************************************************)
(* The application: button presses, model calls, session state             *)
(***************************************************************************)
Init ==
    /\ AppIdle
    /\ SplitterIdle
    /\ CallIdle
    /\ SetupIdle

\* a script run started by a click: setup_aws_clients sets the globals, the pressed
\* button's handler checks its input and, when it passes, starts its model calls;
\* when it does not, the rest of the script draws the page
Click(button, in) ==
    /\ run.pc = "idle"
    /\ presses < MaxPresses
    /\ \E e \in PageEnvs :
          LET setup == PageSetups[e]
              ok == passes_validation(button, in, setup.model_id)
              prompts == IF ok THEN handler_prompts(button, in, session_state) ELSE <<>>
              invoked == ok /\ ~not_configured(setup.bedrock_runtime, setup.model_id)
          IN  /\ env' = e
              /\ setup_result' = setup
              /\ MODEL_ID' = setup.model_id
              /\ bedrock_runtime' = setup.bedrock_runtime
              /\ selected_type' = reference_type_of(button, in, selected_type)
              /\ page' = IF ok THEN NoPage
                         ELSE render_page(session_state, session_state, button,
                                          reference_type_of(button, in, selected_type),
                                          setup.bedrock_runtime, setup.model_id)
              /\ \E f \in (IF invoked THEN FailurePlans(Len(prompts)) ELSE {{}}),
                    v \in 1..NumReplies :
                    \* the answers vary in the runs in which every call returns
                    /\ (~invoked \/ f # {}) => v = 1
                    /\ run' = [pc |-> IF ok THEN "calling" ELSE "finished",
                               button |-> button,
                               input |-> in,
                               valid |-> ok,
                               prompts |-> prompts,
                               variant |-> v,
                               failing |-> f]
    /\ call_log' = <<>>
    /\ presses' = presses + 1
    /\ UNCHANGED <<session_state, splitterVars, cb>>

\* tab 1, "Analyze Text"
ClickAnalyzeText == \E t \in InputTexts : Click("analyze_text", [text |-> t])

\* tab 2, "Transform Text"
ClickTransformText ==
    \E in \in SettingsInputs : Click("transform_text_button", in)

\* tab 4, first block, "Evaluate Text"
ClickEvaluateTextFirst == \E t \in InputTexts : Click("evaluate_text_button", [text |-> t])

\* tab 5, "Generate LaTeX Code"
ClickGenerateLatex ==
    \E in \in LatexInputs : Click("generate_latex", in)

\* tab 6, "Generate Reference"
ClickGenerateReference ==
    \E form \in ReferenceForms :
        Click("generate_reference",
              [style |-> "APA", reference_type |-> form[3], author |-> form[1],
               title |-> form[2],
               year |-> <<50, 48>>, doi |-> <<>>, notes |-> <<>>,    \* "20"
               extra |-> <<<<119>>, <<120>>, <<121>>, <<122>>>>])    \* "w", "x", "y", "z"

\* tab 7 block, "Transform Text Tone"
ClickTransformTextTone ==
    \E in \in SettingsInputs : Click("change_tone", in)

\* "Regenerate" beside one section; drawn only while tone_results is stored
ClickRegenerate ==
    /\ "tone_results" \in DOMAIN session_state
    /\ \E in \in RegenerateInputs : Click("regen", in)

\* tab 3, "Generate Hypothesis Options"
ClickGenerateHypotheses == \E t \in InputTexts : Click("generate_hypotheses", [text |-> t])

\* tab 3, "Get Statistics, References & Outline"; drawn only while hypotheses is stored
ClickGetStatistics ==
    /\ "hypotheses" \in DOMAIN session_state
    /\ \E t \in InputTexts : Click("get_stats_refs_outline", [text |-> t])

\* tab 4, second block, "Evaluate Text"
ClickEvaluateTextSecond == \E t \in InputTexts : Click("evaluate_text", [text |-> t])

\* the running handler makes its next call_bedrock_model call and gets the result
ModelCall ==
    /\ run.pc = "calling"
    /\ Len(call_log) < Len(run.prompts)
    /\ LET k == Len(call_log) + 1
           prompt == run.prompts[k]
           invoked == ~not_configured(bedrock_runtime, MODEL_ID)
           o == PageOutcome(prompt, run.variant, run.failing, k)
       IN  call_log' = Append(call_log,
               [prompt |-> prompt,
                model_id |-> MODEL_ID,
                invoked |-> invoked,
                result |-> call_bedrock_model(prompt, MODEL_ID, bedrock_runtime, o)])
    /\ UNCHANGED <<session_state, MODEL_ID, bedrock_runtime, run, presses, page,
                   selected_type,
                   splitterVars, cb, setupVars>>

\* every call has returned: the handler writes its results to st.session_state and
\* the rest of the script draws the page; Regenerate ends its run with st.rerun()
StoreResults ==
    /\ run.pc = "calling"
    /\ Len(call_log) = Len(run.prompts)
    /\ session_state' =
          StoreAll(session_state,
                   handler_writes(run.button, run.input, session_state,
                                  [i \in 1..Len(call_log) |-> call_log[i].result]))
    /\ run' = [run EXCEPT !.pc = "finished"]
    /\ page' = IF run.button = "regen" THEN RerunPage
               ELSE render_page(session_state, session_state', run.button,
                                selected_type, bedrock_runtime, MODEL_ID)
    /\ UNCHANGED <<MODEL_ID, bedrock_runtime, call_log, presses, selected_type,
                   splitterVars, cb, setupVars>>

\* st.rerun() of a Regenerate press (line 1111): a second script run starts from the
\* top with no button pressed; it calls setup_aws_clients again, in the surroundings of
\* that moment, and draws the page
RerunAfterRegenerate ==
    /\ run.pc = "finished"
    /\ run.button = "regen" /\ run.valid
    /\ \E e \in PageEnvs :
          LET setup == PageSetups[e]
          IN  /\ env' = e
              /\ setup_result' = setup
              /\ MODEL_ID' = setup.model_id
              /\ bedrock_runtime' = setup.bedrock_runtime
              /\ page' = render_page(session_state, session_state, "none",
                                     reference_type_of("none", run.input, selected_type),
                                     setup.bedrock_runtime, setup.model_id)
    /\ run' = [IdleRun EXCEPT !.pc = "finished"]
    /\ call_log' = <<>>
    /\ UNCHANGED <<session_state, presses, selected_type, splitterVars, cb>>

\* the script run is over: the page waits for the next press
EndRun ==
    /\ run.pc = "finished"
    /\ ~(run.button = "regen" /\ run.valid)
    /\ run' = IdleRun
    /\ call_log' = <<>>
    /\ UNCHANGED <<session_state, MODEL_ID, bedrock_runtime, presses, page,
                   selected_type,
                   splitterVars, cb, setupVars>>

Next ==
    \/ ClickAnalyzeText
    \/ ClickTransformText
    \/ ClickEvaluateTextFirst
    \/ ClickGenerateLatex
    \/ ClickGenerateReference
    \/ ClickTransformTextTone
    \/ ClickRegenerate
    \/ ClickGenerateHypotheses
    \/ ClickGetStatistics
    \/ ClickEvaluateTextSecond
    \/ ModelCall
    \/ StoreResults
    \/ RerunAfterRegenerate
    \/ EndRun

Spec == Init /\ [][Next]_vars

(***************************************************************************)
(* setup_aws_clients in every surrounding                                  *)
(***************************************************************************)
InitSetup ==
    /\ env \in {e \in SetupEnvs : e.clicked = "none"}
    /\ setup_result = Unset
    /\ SplitterIdle
    /\ CallIdle
    /\ AppIdle

\* line 166: the script calls setup_aws_clients
RunSetup ==
    /\ setup_result = Unset
    /\ setup_result' = setup_aws_clients(env)
    /\ UNCHANGED <<env, splitterVars, cb, appVars>>

\* the next script run starts, in the same or in other surroundings; a sidebar button
\* can be clicked when the run before has drawn it
Rerun ==
    /\ setup_result # Unset
    /\ env' \in {e \in SetupEnvs : e.clicked \in {"none"} \cup setup_result.buttons}
    /\ setup_result' = Unset
    /\ UNCHANGED <<splitterVars, cb, appVars>>

NextSetup == RunSetup \/ Rerun

SpecSetup == InitSetup /\ [][NextSetup]_vars

(***************************************************************************)
(* Vocabulary of the splitter properties                                   *)
(***************************************************************************)
CorrectionKeys == {"spelling", "grammar", "coherence", "style", "order", "proposed"}

EvaluationKeys == {"spelling", "grammar", "style", "coherence", "overall"}

\* start of the next found marker in position order behind position p, or end of text
NextMarkerStart(t, pairs, p) ==
    LET later == {q \in {find(t, pairs[j][1]) : j \in 1..Len(pairs)} : q > p}
    IN  IF later = {} THEN Len(t) ELSE MinOf(later)

\* trimmed text from the end of marker i's first occurrence to the next found marker
SliceBehindMarker(t, pairs, i) ==
    LET p == find(t, pairs[i][1])
    IN  strip(Slice(t, p + Len(pairs[i][1]), NextMarkerStart(t, pairs, p)))

\* index of the second occurrence of marker m in t, -1 when there is none
SecondOccurrence(t, m) ==
    LET p == find(t, m)
        r == IF p = -1 THEN -1 ELSE find(SliceFrom(t, p + 1), m)
    IN  IF r = -1 THEN -1 ELSE p + 1 + r

(***************************************************************************)
(* Claims                                                                  *)
(***************************************************************************)
\* C1: in the corrections splitter, the value stored for every marker that occurs in
\* the text is the trimmed substring from right after the marker's first occurrence
\* to the start of the next found marker by position, or to the end of the text.
C1_SliceEndsAtNextFoundMarker ==
    parser = "corrections" =>
        \A i \in 1..Len(sections_to_extract) :
            Contains(text, sections_to_extract[i][1]) =>
                sections[sections_to_extract[i][2]]
                    = SliceBehindMarker(text, sections_to_extract, i)

\* three markers in declared order, each followed by text: "a", "b c" and "d"
C1_Witness ==
    /\ parser = "corrections"
    /\ text = SPELLING_CORRECTIONS \o Content(1) \o GRAMMAR_CORRECTIONS \o Content(2)
                 \o COHERENCE_CORRECTIONS \o Content(3)
    /\ sections["spelling"] = <<97>>    \* "a"
    /\ sections["grammar"] = <<98, 32, 99>>    \* "b c"
    /\ sections["coherence"] = <<100>>    \* "d"

\* C2: each definition of parse_evaluation_results gives every present marker the
\* value the position-sorted splitter gives it on the same text and the same five
\* pairs, also when one marker starts right where another ends.
C2_ParseEqualsSortedSplitter ==
    parser \in {"evaluation_1", "evaluation_2"} =>
        \A i \in 1..Len(section_markers) :
            Contains(text, section_markers[i][1]) =>
                sections[section_markers[i][2]]
                    = split_sections(text, section_markers,
                                     NoEvaluationAvailable)[section_markers[i][2]]

\* C3: the corrections mapping has exactly the six keys, and every key whose marker
\* does not occur in the text maps to "No corrections needed."; the empty text gives
\* the fallback for all six.
C3_SixKeysAbsentGetFallback ==
    parser = "corrections" =>
        /\ DOMAIN sections = CorrectionKeys
        /\ \A i \in 1..Len(sections_to_extract) :
              ~Contains(text, sections_to_extract[i][1]) =>
                  sections[sections_to_extract[i][2]] = NoCorrectionsNeeded
        /\ text = <<>> => \A k \in CorrectionKeys : sections[k] = NoCorrectionsNeeded

\* the empty response, split: six keys, all the fallback
C3_Witness ==
    /\ parser = "corrections"
    /\ text = <<>>
    /\ DOMAIN sections = CorrectionKeys
    /\ \A k \in CorrectionKeys : sections[k] = NoCorrectionsNeeded

\* C4: under both definitions of parse_evaluation_results, each of the five keys
\* whose marker does not occur in the text is in the returned mapping with the value
\* "No evaluation available for this section.".
C4_AbsentEvaluationKeyHasFallback ==
    parser \in {"evaluation_1", "evaluation_2"} =>
        \A i \in 1..Len(section_markers) :
            ~Contains(text, section_markers[i][1]) =>
                /\ section_markers[i][2] \in DOMAIN sections
                /\ sections[section_markers[i][2]] = NoEvaluationAvailable

\* C17: whichever definition of parse_evaluation_results produced the stored mapping,
\* the five boxes show the same values for the same response text: a section whose
\* marker is absent shows "No evaluation available for this section.", and a section
\* whose marker is present shows the text both definitions extract for it
C17_SameBoxesUnderBothDefinitions ==
    parser \in {"evaluation_1", "evaluation_2"} =>
        /\ evaluation_boxes(sections) = evaluation_boxes(parse_evaluation_results_1(text))
        /\ evaluation_boxes(sections) = evaluation_boxes(parse_evaluation_results_2(text))
        /\ \A i \in 1..Len(section_markers) :
              ~Contains(text, section_markers[i][1]) =>
                  evaluation_boxes(sections)[section_markers[i][2]] = NoEvaluationAvailable

\* the second definition has left out the key of an absent marker and kept another
C17_Witness ==
    /\ parser = "evaluation_2"
    /\ DOMAIN sections # {}
    /\ DOMAIN sections # KeysOf(section_markers)

\* C5: slices follow the order of the markers' first occurrences in the text, not the
\* declared order: a later-declared marker that occurs first has its slice end where
\* the earlier-declared one begins, and the splitter run with the declared list in
\* any order returns the mapping it returns with the list as declared.
C5_OccurrenceOrderNotDeclaredOrder ==
    /\ parser = "reordered" => sections = correction_sections(text)
    /\ parser \in {"corrections", "reordered"} =>
          \A i, j \in 1..Len(sections_to_extract) :
              LET pi == find(text, sections_to_extract[i][1])
                  pj == find(text, sections_to_extract[j][1])
              IN  (i < j /\ pj # -1 /\ pj < pi
                     /\ NextMarkerStart(text, sections_to_extract, pj) = pi) =>
                      sections[sections_to_extract[j][2]]
                          = strip(Slice(text, pj + Len(sections_to_extract[j][1]), pi))

\* "GRAMMAR ... SPELLING ...": grammar is declared second and occurs first
C5_Witness ==
    /\ parser = "reordered"
    /\ text = GRAMMAR_CORRECTIONS \o Content(1) \o SPELLING_CORRECTIONS \o Content(2)
    /\ sections["grammar"] = <<97>>    \* "a"
    /\ sections["spelling"] = <<98, 32, 99>>    \* "b c"

\* C6: only the first occurrence of a repeated marker bounds a slice. With first
\* occurrence p and second occurrence q of a marker: when no other marker first occurs
\* between them, the marker's slice runs over q up to the next other first occurrence
\* behind q (or the end), so the text behind q is part of it; when another marker
\* first occurs between them, the slice ends there and does not reach q.
C6_OnlyFirstOccurrenceBounds ==
    parser = "corrections" =>
        \A i \in 1..Len(sections_to_extract) :
            LET m == sections_to_extract[i][1]
                p == find(text, m)
                q == SecondOccurrence(text, m)
                between == {r \in {find(text, sections_to_extract[j][1]) :
                                      j \in 1..Len(sections_to_extract)} : p < r /\ r < q}
                behind == {r \in {find(text, sections_to_extract[j][1]) :
                                     j \in 1..Len(sections_to_extract)} : r > q}
            IN  q # -1 =>
                  IF between = {}
                  THEN sections[sections_to_extract[i][2]]
                         = strip(Slice(text, p + Len(m),
                                       IF behind = {} THEN Len(text) ELSE MinOf(behind)))
                  ELSE sections[sections_to_extract[i][2]]
                         = strip(Slice(text, p + Len(m), MinOf(between)))

\* "SPELLING a SPELLING b c": the second marker and the text behind it are swallowed
C6_Witness ==
    /\ parser = "corrections"
    /\ text = SPELLING_CORRECTIONS \o Content(1) \o SPELLING_CORRECTIONS \o Content(2)
    \* "a<U+00A0>", "\nb c"
    /\ sections["spelling"] = <<97, \h00A0>> \o SPELLING_CORRECTIONS \o <<10, 98, 32, 99>>

\* C7: when a declared marker is absent from the text, its key maps to the fallback
\* and every other key maps to the value the splitter returns for the same text with
\* the absent pair removed from the declared list.
C7_AbsentMarkerLeavesOthersUnaffected ==
    parser = "without" =>
        LET full == correction_sections(text)
        IN  /\ \A k \in CorrectionKeys \ DOMAIN sections : full[k] = NoCorrectionsNeeded
            /\ \A k \in DOMAIN sections : full[k] = sections[k]

\* "SPELLING a COHERENCE d" split without the grammar pair
C7_Witness ==
    /\ parser = "without"
    /\ text = SPELLING_CORRECTIONS \o Content(1) \o COHERENCE_CORRECTIONS \o Content(2)
    /\ DOMAIN sections = CorrectionKeys \ {"grammar"}
    /\ sections["spelling"] = <<97>>    \* "a"
    /\ sections["coherence"] = <<98, 32, 99>>    \* "b c"

(***************************************************************************)
(* Vocabulary of the call_bedrock_model properties                         *)
(***************************************************************************)
StartsWith(s, prefix) ==
    Len(s) >= Len(prefix) /\ SubSeq(s, 1, Len(prefix)) = prefix

\* the strings call_bedrock_model returns to tell the user what went wrong
IsDiagnostic(v) ==
    /\ v.type = "str"
    /\ \/ v.chars = WARNING_NOT_CONFIGURED
       \/ StartsWith(v.chars, ERROR_PREFIX)
       \/ v.chars = NO_CONTENT_RETURNED
       \/ StartsWith(v.chars, FORMAT_UNKNOWN_PREFIX)

\* body[list_key] is a non-empty list whose first item is a dict holding text_key
HasListField(body, list_key, text_key) ==
    /\ body.type = "dict"
    /\ dict_has(body, list_key)
    /\ dict_item(body, list_key).type = "list"
    /\ dict_item(body, list_key).items # <<>>
    /\ dict_item(body, list_key).items[1].type = "dict"
    /\ dict_has(dict_item(body, list_key).items[1], text_key)

\* the parsed response holds the fields the model's family is read from
HasExpectedFields(model_id, body) ==
    IF is_claude(model_id) THEN HasListField(body, K_content, K_text)
    ELSE IF is_titan(model_id) THEN HasListField(body, K_results, K_outputText)
    ELSE body.type = "dict" /\ (dict_has(body, K_generated_text) \/ dict_has(body, K_completion))

\* the invocation in cb met one of the failures: no client, no model, invoke_model
\* raised, the body was missing or not JSON, or the expected fields were not there
CallFailed ==
    \/ ~cb.runtime
    \/ cb.model_id \in {PyNone, PyStr(<<>>)}
    \/ cb.exc # Unset
    \/ (cb.response # Unset /\ cb.response.body # "json")
    \/ (cb.response_body # Unset /\ ~HasExpectedFields(cb.model_id, cb.response_body))

\* C8: call_bedrock_model never raises to its caller: whatever the client, the model
\* id and the outcome of the external call, it returns a value, and after every
\* failure that value is a diagnostic string.
C8_NeverRaisesFailureGivesDiagnostic ==
    /\ cb.pc # "raised"
    /\ cb.pc = "returned" =>
          /\ cb.result # Unset
          /\ CallFailed => IsDiagnostic(cb.result)

\* a claude model answers with an empty content list: the IndexError is caught and
\* the error message returned
C8_Witness ==
    /\ cb.pc = "returned"
    /\ cb.model_id = PyStr(ID_CLAUDE_HAIKU)
    /\ cb.response_body = PyDict(<<Pair(K_content, PyList(<<>>))>>)
    /\ cb.exc = [type |-> "IndexError", msg |-> MSG_LIST_INDEX]
    /\ cb.result = PyStr(ERROR_PREFIX \o MSG_LIST_INDEX \o ERROR_TIPS)

\* C9: no retry: within one call_bedrock_model invocation invoke_model is called at
\* most once, namely when the invoke statement is passed, so after a failed call no
\* further invoke_model call is made until the caller starts its next request.
C9_AtMostOneInvokePerCall ==
    /\ cb.invokes <= 1
    /\ cb.pc \in {"entry", "build", "invoke"} => cb.invokes = 0
    /\ cb.pc \in {"parse", "extract", "except"} => cb.invokes = 1

\* invoke_model raised, the call returned its error message, one invoke was made
C9_Witness ==
    /\ cb.pc = "returned"
    /\ cb.exc = [type |-> "ClientError", msg |-> MSG_ACCESS_DENIED]
    /\ cb.result = PyStr(ERROR_PREFIX \o MSG_ACCESS_DENIED \o ERROR_TIPS)
    /\ cb.invokes = 1

(***************************************************************************)
(* Vocabulary of the page properties                                       *)
(***************************************************************************)
\* a press that passed its checks has run its handler to the end
HandlerDone == run.pc = "finished" /\ run.valid

\* C10 as stated: every validated press of a generate button makes exactly one call
\* to call_bedrock_model.
C10_ExactlyOneCallPerPress == HandlerDone => Len(call_log) = 1

\* C10 amended: a validated press makes a fixed number of calls, one after another:
\* ten for Analyze Text and for Transform Text Tone, three for Get Statistics,
\* References & Outline, one for every other generate button.
C10_FixedNumberOfCallsPerPress ==
    HandlerDone =>
        Len(call_log) =
            (CASE run.button \in {"analyze_text", "change_tone"} -> 10
               [] run.button = "get_stats_refs_outline" -> 3
               [] OTHER -> 1)

\* Analyze Text has finished with ten calls in its log
C10_Witness ==
    /\ HandlerDone
    /\ run.button = "analyze_text"
    /\ Len(call_log) = 10
    /\ "analysis_results" \in DOMAIN session_state

(***************************************************************************)
(* Vocabulary of the model family properties                               *)
(***************************************************************************)
\* the character c is the lower-case letter l or its upper-case form
SameLetter(c, l) ==
    \/ c = l
    \/ \E u \in 1..Len(LOWERCASE) : LOWERCASE[u] = l /\ UPPERCASE[u] = c

\* the id spells the family name somewhere, in any mix of cases
Mentions(id, family) ==
    \E p \in 0..(Len(id) - Len(family)) :
        \A j \in 1..Len(family) : SameLetter(id[p + j], family[j])

\* the family an id belongs to by the precedence claude, titan, llama
FamilyOf(id) ==
    IF Mentions(id, CLAUDE) THEN "claude"
    ELSE IF Mentions(id, TITAN) THEN "titan"
    ELSE IF Mentions(id, LLAMA) THEN "llama"
    ELSE "generic"

\* the shape of a request body, told by its fields
BodyShape(body) ==
    CASE DOMAIN body = {"anthropic_version", "max_tokens", "messages"} -> "claude"
      [] DOMAIN body = {"inputText", "textGenerationConfig"} -> "titan"
      [] DOMAIN body = {"prompt", "max_gen_len", "temperature", "top_p"} -> "llama"
      [] DOMAIN body = {"prompt", "max_tokens"} -> "generic"
      [] OTHER -> "none"

\* C11: the request body has the shape of the family the model id names, matched
\* without regard to case, with the precedence claude, titan, llama, and the generic
\* prompt/max_tokens shape for every other id; the prompt is carried in the field of
\* that shape.
C11_BodyShapeFollowsFamily ==
    cb.body # Unset =>
        /\ BodyShape(cb.body) = FamilyOf(cb.model_id.chars)
        /\ CASE FamilyOf(cb.model_id.chars) = "claude" ->
                    cb.body.messages = <<[role |-> "user", content |-> cb.prompt]>>
             [] FamilyOf(cb.model_id.chars) = "titan" -> cb.body.inputText = cb.prompt
             [] OTHER -> cb.body.prompt = cb.prompt

\* an id naming titan and claude, claude in capitals, was given the messages shape
C11_Witness ==
    /\ cb.pc = "invoke"
    /\ cb.model_id = PyStr(ID_TITAN_CLAUDE)
    /\ BodyShape(cb.body) = "claude"


(***************************************************************************)
(* Model discovery                                                         *)
(***************************************************************************)
BothClients == setup_result # Unset /\ setup_result.bedrock_runtime /\ setup_result.bedrock

ListingRaises == env.listing.raised

ListingEmpty ==
    /\ ~env.listing.raised
    /\ dict_has(env.listing.value, K_modelSummaries)
    /\ dict_item(env.listing.value, K_modelSummaries) = PyList(<<>>)

\* C12 as stated: with both Bedrock clients, a list call that raises or that returns
\* an empty list makes the selector offer the static list of model ids
C12_FallbackWhenNoIdentifiers ==
    (BothClients /\ (ListingRaises \/ ListingEmpty))
        => setup_result.selector = common_models

\* C12: with both Bedrock clients, a list call that raises makes the selector offer
\* the static list and the model id is the option chosen from it (None for "Choose a
\* model"); a list call that returns an empty list draws no selector, writes that no
\* models were found and leaves the model id None
C12_FallbackOnlyWhenListingRaises ==
    /\ (BothClients /\ ListingRaises)
          => /\ setup_result.selector = common_models
             /\ setup_result.model_id =
                    (IF env.choice = 0 THEN PyNone ELSE common_models[env.choice + 1])
    /\ (BothClients /\ ListingEmpty)
          => /\ setup_result.selector = <<>>
             /\ setup_result.note = "no_models_found"
             /\ setup_result.model_id = PyNone

C12_Witness ==
    /\ BothClients
    /\ ListingRaises
    /\ setup_result.model_id = PyStr(ID_CLAUDE_SONNET)

(***************************************************************************)
(* Vocabulary of the session state properties                              *)
(***************************************************************************)
Stored(key) == key \in DOMAIN session_state

\* the handler of the button has made its calls and written its results
Finished(button) == HandlerDone /\ run.button = button

\* the marker of a key in a table of (marker, key) pairs
MarkerOf(pairs, key) == pairs[CHOOSE i \in 1..Len(pairs) : pairs[i][2] = key][1]

\* every value of the mapping is cut from the response or is the fallback text
TakenFrom(mapping, pairs, response, fallback) ==
    \A k \in DOMAIN mapping :
        \/ mapping[k] = PyStr(fallback)
        \/ /\ Contains(response.chars, MarkerOf(pairs, k))
           /\ \E p \in 0..Len(response.chars) :
                 Slice(response.chars, p, p + Len(mapping[k].chars)) = mapping[k].chars

\* C13: in every session state the keys of analysis_results["corrections"] are among
\* the six correction keys and the keys of evaluation_results among the five
\* evaluation keys; a validated Analyze Text or Evaluate Text press replaces the
\* whole stored mapping, so each of its values is cut from the response of this press
\* (or is the fallback text) and no value of an earlier press is left
C13_KeysBoundedMappingReplaced ==
    /\ Stored("analysis_results") =>
          DOMAIN session_state["analysis_results"]["corrections"]
              \subseteq KeysOf(sections_to_extract)
    /\ Stored("evaluation_results") =>
          DOMAIN session_state["evaluation_results"] \subseteq KeysOf(section_markers)
    /\ Finished("analyze_text") =>
          TakenFrom(session_state["analysis_results"]["corrections"], sections_to_extract,
                    call_log[Len(call_log)].result, NoCorrectionsNeeded)
    /\ (Finished("evaluate_text_button") \/ Finished("evaluate_text")) =>
          /\ TakenFrom(session_state["evaluation_results"], section_markers,
                       call_log[1].result, NoEvaluationAvailable)
          /\ session_state["raw_evaluation"] = call_log[1].result

\* the second press evaluated a text whose answer names two sections, and the stored
\* mapping holds nothing but what that answer gave
C13_Witness ==
    /\ presses = 2
    /\ Finished("evaluate_text")
    /\ call_log[1].result = PyStr(SampleEvaluations(2))
    /\ DOMAIN session_state["evaluation_results"] = {"spelling", "grammar"}

\* the generate buttons that require a text (Generate Reference: author and title)
TextButtons ==
    {"analyze_text", "transform_text_button", "change_tone", "generate_hypotheses",
     "get_stats_refs_outline", "evaluate_text_button", "evaluate_text", "generate_latex",
     "generate_reference"}

\* the run is the press of such a button on an empty or white-space-only input
BlankPress(r) ==
    /\ r.pc # "idle"
    /\ r.button \in TextButtons
    /\ IF r.button = "generate_reference"
       THEN Blank(r.input.author) \/ Blank(r.input.title)
       ELSE Blank(r.input.text)

\* C14: pressing a generate button whose required text is empty or white space only
\* (for Generate Reference: author or title) makes no model call and leaves the
\* session state as it was
C14_BlankInputNoCallNoWrite ==
    [][BlankPress(run') => (session_state' = session_state /\ call_log' = <<>>)]_vars

\* Analyze Text pressed on white space with a model selected, after an analysis was
\* stored: the run is over without a call
C14_Witness ==
    /\ BlankPress(run)
    /\ run.pc = "finished"
    /\ run.button = "analyze_text"
    /\ run.input.text = <<32, \h3000>>    \* " <U+3000>"
    /\ Truthy(MODEL_ID)
    /\ Stored("analysis_results")
    /\ call_log = <<>>

\* the session keys of the feature area a button belongs to
AreaKeys(button) ==
    CASE button = "analyze_text" -> {"analysis_results"}
      [] button = "transform_text_button" -> {"transformed_text"}
      [] button \in {"change_tone", "regen"} ->
            {"tone_results", "current_tone", "current_settings"}
      [] button \in {"generate_hypotheses", "get_stats_refs_outline"} ->
            {"hypotheses", "selected_hypothesis", "hypothesis_statistics",
             "hypothesis_references", "hypothesis_outline"}
      [] button \in {"evaluate_text_button", "evaluate_text"} ->
            {"evaluation_results", "raw_evaluation"}
      [] button = "generate_latex" -> {"latex_code"}
      [] button = "generate_reference" -> {"formatted_reference"}
      [] OTHER -> {}

\* the session keys whose value a step adds, removes or changes
ChangedKeys ==
    {k \in DOMAIN session_state \cup DOMAIN session_state' :
        \/ k \notin DOMAIN session_state
        \/ k \notin DOMAIN session_state'
        \/ session_state'[k] # session_state[k]}

\* C15: a generate action writes only session keys of its own feature area, so a
\* cached value stays as it is across reruns and across the actions of the other
\* features, until a handler of its own feature overwrites it
C15_WritesOnlyOwnArea ==
    [][ChangedKeys \subseteq (IF run.pc = "calling" THEN AreaKeys(run.button) ELSE {})]_vars

\* an evaluation was stored by the second press while the analysis of the first is cached
C15_Witness ==
    /\ presses = 2
    /\ Finished("evaluate_text_button")
    /\ Stored("analysis_results")
    /\ Stored("evaluation_results")

(***************************************************************************)
(* Vocabulary of the reference properties                                  *)
(***************************************************************************)
CommonLabels == {"Author(s)", "Title", "Year", "DOI", "Notes"}

\* the labels of the inputs drawn for a reference type
TypeLabels(reference_type) ==
    CASE reference_type \in {"Journal Article", "Conference Paper"} ->
            {"Journal/Conference", "Volume", "Issue", "Pages"}
      [] reference_type = "Book" -> {"Publisher", "Place Published", "Edition"}
      [] reference_type = "Website" -> {"Website Name", "URL", "Date Accessed"}
      [] reference_type = "Thesis/Dissertation" ->
            {"Institution", "Degree Type", "Department"}
      [] reference_type = "Report" -> {"Organization", "Report Number", "Place Published"}

\* the value the fields give a label
FieldValue(fields, label) == fields[CHOOSE i \in 1..Len(fields) : fields[i][1] = label][2]

\* the fields of the request a validated Generate Reference press sends
ReferenceRequested == run.pc # "idle" /\ run.button = "generate_reference" /\ run.valid

\* C16: a validated Generate Reference press builds its fields anew: the labels of the
\* mapping it passes to generate_reference are exactly the five common ones and those
\* of the reference type selected now, each once, the common values are those entered,
\* and every other value is one entered in the inputs drawn for this type
C16_FieldsOfSelectedTypeOnly ==
    ReferenceRequested =>
        LET in == run.input
            fields == reference_fields(in.reference_type, in)
        IN  /\ run.prompts = <<generate_reference(in.style, in.reference_type, fields)>>
            /\ \A i \in 1..Len(run.prompts[1].field_info) :
                  \E j \in 1..Len(fields) : fields[j] = run.prompts[1].field_info[i]
            /\ {fields[i][1] : i \in 1..Len(fields)}
                  = CommonLabels \cup TypeLabels(in.reference_type)
            /\ Len(fields) = Cardinality(CommonLabels \cup TypeLabels(in.reference_type))
            /\ FieldValue(fields, "Author(s)") = in.author
            /\ FieldValue(fields, "Title") = in.title
            /\ FieldValue(fields, "Year") = in.year
            /\ FieldValue(fields, "DOI") = in.doi
            /\ FieldValue(fields, "Notes") = in.notes
            /\ \A l \in TypeLabels(in.reference_type) :
                  \E j \in 1..Cardinality(TypeLabels(in.reference_type)) :
                      FieldValue(fields, l) = in.extra[j]

\* a reference of an earlier press is stored while the fields of a Report are sent
C16_Witness ==
    /\ ReferenceRequested
    /\ run.pc = "calling"
    /\ presses = 2
    /\ Stored("formatted_reference")
    /\ run.input.reference_type = "Report"
    /\ Len(reference_fields(run.input.reference_type, run.input)) = 8
    /\ Len(run.prompts[1].field_info) = 6

(***************************************************************************)
(* Vocabulary of the Analyze Text sequence                                 *)
(***************************************************************************)
\* the sections Analyze Text asks for, call by call
AnalyzeOrder == section_names \o <<"corrections">>

\* a validated Analyze Text press is being handled or has been handled
Analyzing == run.pc # "idle" /\ run.button = "analyze_text" /\ run.valid

\* the calls made so far are the first ones of the ten, in order, on the text entered
CallsInOrder ==
    /\ Len(call_log) <= Len(AnalyzeOrder)
    /\ \A i \in 1..Len(call_log) :
          /\ call_log[i].prompt.fn = "analyze_user_text_enhanced"
          /\ call_log[i].prompt.section = AnalyzeOrder[i]
          /\ call_log[i].prompt.text = run.input.text

\* a step of the handler is one more call, nothing being stored, or, after the tenth
\* call, the assignment of the results
OneCallOrStore ==
    \/ /\ Len(call_log) < Len(AnalyzeOrder)
       /\ Len(call_log') = Len(call_log) + 1
       /\ SubSeq(call_log', 1, Len(call_log)) = call_log
       /\ session_state' = session_state
       /\ run'.pc = "calling"
    \/ /\ Len(call_log) = Len(AnalyzeOrder)
       /\ call_log' = call_log
       /\ run'.pc = "finished"
       /\ \A i \in 1..Len(section_names) :
             session_state'["analysis_results"][section_names[i]] = call_log[i].result

\* C18: a validated Analyze Text press makes exactly ten calls, one after another: the
\* nine section prompts in their fixed order, then the corrections prompt; the stored
\* analysis_results has exactly the nine section keys and "corrections", and it is
\* stored only after the tenth call has returned
C18_TenCallsInOrderThenStore ==
    /\ [](Analyzing => CallsInOrder)
    /\ [](Finished("analyze_text") =>
            /\ Len(call_log) = Len(AnalyzeOrder)
            /\ DOMAIN session_state["analysis_results"]
                   = {AnalyzeOrder[i] : i \in 1..Len(AnalyzeOrder)})
    /\ [][(Analyzing /\ run.pc = "calling") => OneCallOrStore]_vars

\* the ninth section has been answered, the corrections not yet asked for, and nothing
\* is stored
C18_Witness ==
    /\ Analyzing
    /\ run.pc = "calling"
    /\ Len(call_log) = 9
    /\ call_log[9].prompt.section = "appendix"
    /\ ~Stored("analysis_results")

(***************************************************************************)
(* Request shape and response extraction                                   *)
(***************************************************************************)
\* the response of the call has been through the extraction
Extracted == cb # Unset /\ cb.extraction # "none"

\* C19: the response is read with the shape of the family that shaped the request:
\* the generic lookup is applied exactly when the generic request shape was sent, and
\* a family with a request shape of its own has a response extraction of its own
C19_ExtractionFollowsRequestShape ==
    Extracted => cb.extraction = BodyShape(cb.body)

\* the generic lookup has been applied to a response that is a JSON object
GenericOnObject ==
    /\ Extracted
    /\ cb.extraction = "generic"
    /\ cb.response_body.type = "dict"

\* C20: the generic lookup returns the generated_text field of the response when the
\* response has one (also when it has a completion field as well), otherwise its
\* completion field when it has one, and otherwise a string that starts with
\* "Response received but format unknown:"
C20_GenericLookupOrder ==
    GenericOnObject =>
        /\ cb.pc = "returned"
        /\ cb.exc = Unset
        /\ IF dict_has(cb.response_body, K_generated_text)
           THEN cb.result = dict_item(cb.response_body, K_generated_text)
           ELSE IF dict_has(cb.response_body, K_completion)
           THEN cb.result = dict_item(cb.response_body, K_completion)
           ELSE /\ cb.result.type = "str"
                /\ StartsWith(cb.result.chars, FORMAT_UNKNOWN_PREFIX)

\* a response with both fields, completion first, has given its generated_text
C20_Witness ==
    /\ GenericOnObject
    /\ dict_has(cb.response_body, K_completion)
    /\ dict_has(cb.response_body, K_generated_text)
    /\ cb.result = PyStr(<<103>>)    \* "g"

(***************************************************************************)
(* Vocabulary of the configuration guard                                   *)
(***************************************************************************)
\* a model id that is a non-empty string
NonEmptyModelId(model_id) == model_id.type = "str" /\ model_id.chars # <<>>

\* C21: in every sequence of presses, each call that reaches invoke_model is made
\* with a runtime client and a non-empty model id; every other call returns the
\* configuration warning of call_bedrock_model
C21_InvokeOnlyWhenConfigured ==
    \A i \in 1..Len(call_log) :
        /\ call_log[i].invoked => (bedrock_runtime /\ NonEmptyModelId(call_log[i].model_id))
        /\ ~call_log[i].invoked => call_log[i].result = PyStr(WARNING_NOT_CONFIGURED)
        /\ (bedrock_runtime /\ NonEmptyModelId(call_log[i].model_id)) => call_log[i].invoked

\* Get Statistics pressed with a runtime client and an empty model id: three calls,
\* none invoked
C21_Witness ==
    /\ Finished("get_stats_refs_outline")
    /\ bedrock_runtime
    /\ MODEL_ID = PyStr(<<>>)
    /\ Len(call_log) = 3
    /\ \A i \in 1..3 : ~call_log[i].invoked

\* C22: a press of a button whose handler calls the model, made while MODEL_ID is
\* None, writes nothing to the session state (so no configuration warning is cached)
C22_NoWriteWithoutModel ==
    [][(MODEL_ID' = PyNone /\ run'.pc # "idle") => session_state' = session_state]_vars

(***************************************************************************)
(* Vocabulary of the tone results properties                               *)
(***************************************************************************)
SettingKeys == {"tone", "text_type", "technical_level", "formality_level", "statistics_level"}

\* C23: in every session state, tone_results is stored only together with
\* current_settings holding all five settings and with current_tone, so the display
\* of the tone results finds every setting it reads
C23_ToneResultsHaveSettings ==
    Stored("tone_results") =>
        /\ Stored("current_settings")
        /\ DOMAIN session_state["current_settings"] = SettingKeys
        /\ Stored("current_tone")
        /\ session_state["current_tone"] = session_state["current_settings"].tone

\* Transform Text Tone has stored its results with the settings of the press
C23_Witness ==
    /\ Finished("change_tone")
    /\ Stored("tone_results")
    /\ session_state["current_settings"] = run.input.settings
    /\ session_state["current_tone"] = "Simple"

\* a Regenerate press that got past its test of the model and the text
Regenerating == run.pc # "idle" /\ run.button = "regen" /\ run.valid

\* the one request of the press: the text entered, the section of the button, and the
\* settings stored in current_settings
RegenerateRequest ==
    /\ Len(run.prompts) = 1
    /\ run.prompts[1].fn = "change_text_tone_section_enhanced"
    /\ run.prompts[1].text = run.input.text
    /\ run.prompts[1].section = run.input.section
    /\ run.prompts[1].settings = session_state["current_settings"]

\* the step that stores: the entry of the section is the result of the call, every
\* other entry of tone_results and every other session key is as before
OnlySectionReplaced ==
    /\ Len(call_log) = 1
    /\ DOMAIN session_state' = DOMAIN session_state
    /\ \A k \in DOMAIN session_state \ {"tone_results"} :
          session_state'[k] = session_state[k]
    /\ DOMAIN session_state'["tone_results"] = DOMAIN session_state["tone_results"]
    /\ \A s \in DOMAIN session_state["tone_results"] :
          session_state'["tone_results"][s] =
              (IF s = run.input.section THEN call_log[1].result
               ELSE session_state["tone_results"][s])

\* C24: a Regenerate press with a model selected and a non-blank tone text makes one
\* model call built from the settings stored in current_settings, replaces only the
\* entry of its section in tone_results and leaves the other eight sections, the
\* corrections, current_tone and current_settings as they were; with no model or a
\* blank text it changes nothing
C24_RegenerateReplacesOneSection ==
    /\ [](Regenerating => RegenerateRequest)
    /\ [][(Regenerating /\ run.pc = "calling" /\ run'.pc = "finished")
             => OnlySectionReplaced]_vars
    /\ [][(run'.button = "regen" /\ ~run'.valid) => session_state' = session_state]_vars

\* the section was regenerated while the selectors show other settings than the stored
C24_Witness ==
    /\ Regenerating
    /\ run.pc = "finished"
    /\ run.input.settings # session_state["current_settings"]
    /\ run.prompts[1].settings = session_state["current_settings"]
    /\ session_state["tone_results"]["abstract"] = call_log[1].result
    /\ session_state["tone_results"]["hypothesis"] # call_log[1].result

(***************************************************************************)
(* Vocabulary of the hypothesis properties                                 *)
(***************************************************************************)
HypothesisResultKeys ==
    <<"hypothesis_statistics", "hypothesis_references", "hypothesis_outline">>

StoredResultKeys ==
    {k \in {HypothesisResultKeys[i] : i \in 1..3} : Stored(k)}

\* C25: in every session state the keys hypothesis_statistics, hypothesis_references
\* and hypothesis_outline are all present or all absent, and present only if
\* hypotheses is; a Get Statistics, References & Outline press stores the three, each
\* the result of its own call, only after the three calls have returned
C25_ThreeResultsTogether ==
    /\ [](/\ StoredResultKeys \in {{}, {HypothesisResultKeys[i] : i \in 1..3}}
          /\ StoredResultKeys # {} => Stored("hypotheses"))
    /\ [][(run.button = "get_stats_refs_outline" /\ session_state' # session_state)
             => /\ Len(call_log) = 3
                /\ \A i \in 1..3 :
                      session_state'[HypothesisResultKeys[i]] = call_log[i].result]_vars

\* the three results of one press are stored, the outline being the third answer
C25_Witness ==
    /\ Finished("get_stats_refs_outline")
    /\ Len(call_log) = 3
    /\ call_log[3].invoked
    /\ session_state["hypothesis_outline"] = call_log[3].result
    /\ session_state["hypothesis_statistics"] = call_log[1].result
    /\ Stored("hypotheses")

(***************************************************************************)
(* The sidebar buttons of setup_aws_clients                                *)
(***************************************************************************)
\* C28: a button reading True only in the run its own click triggers, a click on the
\* Create Bucket button that Test S3 Connection has offered for a missing bucket leads
\* to a create_bucket call for that bucket
C28_CreateBucketClickCreates ==
    (setup_result # Unset /\ env.clicked = "create_bucket")
        => \E i \in 1..Len(setup_result.calls) : setup_result.calls[i] = "create_bucket"

(***************************************************************************)
(* The page after a failed setup                                           *)
(***************************************************************************)
\* setup_aws_clients returned None for the session, the three clients and the model
\* identifier, with the region and the bucket name that were entered
FailedSetupTuple ==
    /\ ~setup_result.session /\ ~setup_result.s3
    /\ ~setup_result.bedrock_runtime /\ ~setup_result.bedrock
    /\ setup_result.model_id = PyNone
    /\ setup_result.aws_region = env.aws_region
    /\ setup_result.s3_bucket = env.s3_bucket

\* every call of call_bedrock_model the run made returned the configuration warning at
\* its guard (lines 185-186), before a request body is built: none reached invoke_model
NoRequestReachedModel ==
    \A i \in 1..Len(call_log) :
        /\ ~call_log[i].invoked
        /\ call_log[i].result = PyStr(WARNING_NOT_CONFIGURED)

\* C27: when the session or a client cannot be created, setup_aws_clients returns None
\* for session, s3, bedrock_runtime, bedrock and model_id with the entered region and
\* bucket name, and in the script run that follows no request reaches the model: every
\* button with an `elif not MODEL_ID` branch ends without calling call_bedrock_model,
\* and the calls of Get Statistics, References & Outline return at its guard
C27_FailedSetupNoModelCall ==
    (setup_result # Unset /\ env.session # "ok")
        => /\ FailedSetupTuple
           /\ MODEL_ID = PyNone
           /\ ~bedrock_runtime
           /\ NoRequestReachedModel
           /\ run.button # "get_stats_refs_outline" => call_log = <<>>

\* after a failed setup Get Statistics, References & Outline has run to its end: its
\* three calls were made and each returned at the guard
C27_Witness ==
    /\ Finished("get_stats_refs_outline")
    /\ env.session # "ok"
    /\ FailedSetupTuple
    /\ Len(call_log) = 3
    /\ NoRequestReachedModel

(***************************************************************************)
(* Widget keys and the footer                                              *)
(***************************************************************************)
\* a script run is over: its handler has returned and the page is drawn
RunOver == run.pc = "finished"

\* C29: in every script run, whatever the session state, no widget key is registered
\* by two widgets, so the run reaches the footer without a duplicate-key error
C29_NoDuplicateWidgetKey ==
    RunOver => (page.stopped_at = 0 /\ page.footer # "none")

\* setup_aws_clients created both Bedrock clients and the entry chosen in the selector
\* it drew is not "Choose a model"
ModelChosen ==
    /\ setup_result.bedrock_runtime
    /\ setup_result.bedrock
    /\ env.choice + 1 <= Len(setup_result.selector)
    /\ setup_result.selector[env.choice + 1] # PyStr(CHOOSE_A_MODEL)

\* C26: after every run of setup_aws_clients MODEL_ID is not None only if both Bedrock
\* clients were created and an entry other than "Choose a model" was chosen, and the
\* footer of the run shows "Connected" exactly when MODEL_ID is not None
C26_ConnectedIffModelChosen ==
    RunOver =>
        /\ MODEL_ID = setup_result.model_id
        /\ MODEL_ID # PyNone => ModelChosen
        /\ (page.footer = "connected") <=> (MODEL_ID # PyNone)

====
